---- MODULE Spec2Model ----
(***************************************************************************)
(* ts_utils: cursor-driven tree traversal (ts_utils/traversals.py,         *)
(* ts_utils/iter.py, ts_utils/cursor_utils.py).                            *)
(*                                                                         *)
(* A tree is a record [nodes, par]: a finite set of node ids and the       *)
(* parent of each (0 for the root).  The children of a node are ordered by *)
(* id.  A node's value (TreeSpec.get_value) is its id, so a predicate on   *)
(* values is a set of ids.                                                 *)
(***************************************************************************)
EXTENDS Integers, Sequences, FiniteSets, TLC

\* Largest tree (in nodes) walked by traverse alone.
MaxNodes == 5

\* Largest tree walked by the three derived iterators of iter.py.
MaxIterNodes == 4

\* Largest tree walked with a hook bound to the stream.
MaxHookNodes == 5

\* Largest tree walked with two merged hooks bound to the stream.
MaxMergedNodes == 4

\* Largest tree walked with a predicate that raises.
MaxRaiseNodes == 5

\* Largest tree a caller navigates with a cursor of its own.
MaxCursorNodes == 4

\* number of navigation calls after a read of cursor.node over which the
\* cursor that was read is compared with one that was not
MaxLater == 2

\* number of __setitem__ and __delitem__ calls made on a NodeDict
MaxDictOps == 3

\* length of the iterable a NodeCollection is built from, and number of add
\* and remove calls made on it afterwards
MaxGiven == 3

MaxCollectionOps == 1

\* nodes of the tree whose s-expression is taken
MaxSexpNodes == 4

\* nodes of the trees whose children iterchildren lists
MaxChildNodes == 5

VARIABLES
    tree,             \* the tree handed to tuple_cursor
    should_traverse,  \* traverse's predicate argument (None or a predicate)
    cursor,           \* the GenericCursor driven by the running generator
    gen,              \* the frame of the running traversal generator
    out,              \* the steps the generator has yielded so far
    mode,             \* which program is running: "traverse", "hook", or the
                      \* iterator of iter.py being collected into a list
    traversal_filter, \* the traversal_filter given to the iterators of iter.py
    parent_filter,    \* iternodes_with_parent's parent_filter
    pstack,           \* parent_stack of iternodes_with_parent / _with_edges
    lists,            \* the lists collected by the finished iterators of iter.py
    hook,             \* the hook bound to the stream: kind, fn, and its fields
    bind,             \* the frame of TraversalHook.bind
    snaps,            \* the (value, step) pairs the generator wrapped around
                      \* the stream (bind, with_height) has yielded so far
    navs,             \* how often traverse has called each navigation method
    wh,               \* the frame of with_height
    call,             \* the navigation call a caller of the cursor made last
    ref,              \* the tree node that caller's successful moves lead to
    c2,               \* the cursor that caller got from cursor.copy()
    req,              \* what the consumer of the stream is doing: "loop" when
                      \* it is a loop that runs the generator to its end, or
                      \* "idle", "requested" (inside next()), "stopped"
    node_dict,        \* NodeDict._mapping: its entries in insertion order
    node_collection,  \* a NodeCollection: its _nodes in insertion order and
                      \* the next id of its id_counter
    given,            \* the iterable the NodeCollection was built from
    ops,              \* the calls so far that write to the container
    is_named,         \* the nodes of the tree whose is_named is True
    wrap,             \* the wrap argument of sexp
    sexp_out,         \* how the call of sexp ended
    fn_calls          \* the calls of its combine function that a BroadcastL
                      \* bound to the stream has made: what each was handed
                      \* and what it returned

vars == <<tree, should_traverse, cursor, gen, out, mode, traversal_filter,
          parent_filter, pstack, lists, hook, bind, snaps, navs, wh, call,
          ref, c2, req, node_dict, node_collection, given, ops, is_named,
          wrap, sexp_out, fn_calls>>

\* the state of the containers of collections.py and of the call of sexp,
\* and the calls of combine
containers == <<node_dict, node_collection, given, ops, is_named, wrap,
                sexp_out, fn_calls>>

----------------------------------------------------------------------------
(* Sequences and trees *)

Last(s) == s[Len(s)]

Front(s) == SubSeq(s, 1, Len(s) - 1)

SetMin(S) == CHOOSE m \in S : \A x \in S : m <= x

RECURSIVE SortedSeq(_)
SortedSeq(S) ==
    IF S = {} THEN <<>>
    ELSE LET m == SetMin(S) IN <<m>> \o SortedSeq(S \ {m})

RECURSIVE IsAncOrSelf(_, _, _)
\* a is b or an ancestor of b, in the parent function p
IsAncOrSelf(p, a, b) ==
    IF a = b THEN TRUE
    ELSE IF b = 0 \/ p[b] = 0 THEN FALSE
    ELSE IsAncOrSelf(p, a, p[b])

\* The trees of exactly n nodes, the nodes numbered 1..n.  Every ordered
\* rooted tree occurs once: node i+1 hangs below node i or below one of
\* node i's ancestors, to the right of what is already there.
TreesOfSize(n) ==
    { [nodes |-> 1..n, par |-> p] :
        p \in { q \in [1..n -> 0..(n - 1)] :
                  /\ q[1] = 0
                  /\ \A i \in 2..n :
                        /\ q[i] >= 1
                        /\ q[i] < i
                        /\ IsAncOrSelf(q, q[i], i - 1) } }

Trees(max) == UNION { TreesOfSize(n) : n \in 1..max }

Root(t) == CHOOSE n \in t.nodes : t.par[n] = 0

Children(t, n) == SortedSeq({ c \in t.nodes : t.par[c] = n })

IsProperAncestor(t, a, n) == a # n /\ IsAncOrSelf(t.par, a, n)

Subtree(t, n) == { d \in t.nodes : IsAncOrSelf(t.par, n, d) }

RECURSIVE Depth(_, _)
\* root = 1, its children = 2, ...
Depth(t, n) == IF t.par[n] = 0 THEN 1 ELSE 1 + Depth(t, t.par[n])

RECURSIVE Concat(_, _, _)
Concat(F(_), s, i) ==
    IF i > Len(s) THEN <<>> ELSE F(s[i]) \o Concat(F, s, i + 1)

----------------------------------------------------------------------------
(* cursor_utils.py: TreeSpec as built by tuple_cursor, GenericCursor *)

child_count(t, node) == Len(Children(t, node))

get_child_at_index(t, node, index) == Children(t, node)[index + 1]

get_value(node) == node

is_leaf(t, node) == child_count(t, node) = 0

RECURSIVE node_at_path_from(_, _, _, _)
node_at_path_from(t, curr, path, i) ==
    IF i > Len(path) THEN curr
    ELSE node_at_path_from(t, get_child_at_index(t, curr, path[i]), path, i + 1)

node_at_path(t, path) == node_at_path_from(t, Root(t), path, 1)

\* GenericCursor.__init__ (tuple_cursor passes no path)
GenericCursor(t, path) ==
    [path |-> path, parent_stack |-> <<>>, node |-> Root(t), node_dirty |-> TRUE]

tuple_cursor(t) == GenericCursor(t, <<>>)

\* no copy has been taken: c2 is unbound
NoCopy ==
    [made |-> FALSE, shares |-> {},
     cur |-> [path |-> <<>>, parent_stack |-> <<>>, node |-> 0,
              node_dirty |-> FALSE]]

\* copy that hands the constructor a list object of the original, as if
\* __init__ kept `path` as given and copy passed self.path: the two cursors
\* then hold one path list.
copy_SharesPath(t, c) ==
    [made |-> TRUE, cur |-> GenericCursor(t, c.path), shares |-> {"path"}]

\* lines 78-79 with __init__ (67-76): the new cursor is built from a tuple of
\* the path, of which __init__ makes a list of its own, and gets a new empty
\* parent_stack; shares names the list attributes that are one object in
\* both cursors
copy(t, c) ==
    [made |-> TRUE, cur |-> GenericCursor(t, c.path), shares |-> {}]

\* What a cursor `to` looks like once the cursor `from` has been changed,
\* when the list attributes in `fields` are one object in both.
Aliased(fields, from, to) ==
    [to EXCEPT !.path = IF "path" \in fields THEN from.path ELSE @,
               !.parent_stack = IF "parent_stack" \in fields
                                THEN from.parent_stack ELSE @]

\* A refresh whose walk down the tree uses up the path list it follows, as
\* if node_at_path popped the indices off the list it is given.
node_refresh_ConsumesPath(t, c) ==
    IF c.node_dirty
    THEN [c EXCEPT !.node = node_at_path(t, c.path), !.path = <<>>,
                   !.node_dirty = FALSE]
    ELSE c

\* The node property: refreshes the lazy cache, then projects the value.
node_refresh(t, c) ==
    IF c.node_dirty
    THEN [c EXCEPT !.node = node_at_path(t, c.path), !.node_dirty = FALSE]
    ELSE c

node_value(t, c) == get_value(node_refresh(t, c).node)

\* Each navigation method gives the returned boolean and the cursor after
\* it; raised is TRUE when the call ends in an exception instead of returning
\* (pop from an empty list, index into an empty list), the cursor being as it
\* was at the statement that raised.

\* a descent that does not record the ancestor it leaves (line 92 left out)
goto_first_child_NoPush(t, c) ==
    LET curr == node_at_path(t, c.path) IN
    IF ~is_leaf(t, curr)
    THEN [ok |-> TRUE, raised |-> FALSE,
          c  |-> [c EXCEPT !.path = Append(@, 0), !.node_dirty = TRUE]]
    ELSE [ok |-> FALSE, raised |-> FALSE, c |-> c]

\* lines 89-97
goto_first_child(t, c) ==
    LET curr == node_at_path(t, c.path) IN
    IF ~is_leaf(t, curr)
    THEN [ok |-> TRUE, raised |-> FALSE,
          c  |-> [c EXCEPT !.parent_stack = Append(@, curr),
                           !.path = Append(@, 0),
                           !.node_dirty = TRUE]]
    ELSE [ok |-> FALSE, raised |-> FALSE, c |-> c]

\* goto_parent that returns True without shortening the path (line 103
\* dropped).
goto_parent_KeepsPath(t, c) ==
    IF c.path = <<>>
    THEN [ok |-> FALSE, raised |-> FALSE, c |-> c]
    ELSE IF c.parent_stack = <<>>
    THEN [ok |-> FALSE, raised |-> TRUE, c |-> c]
    ELSE [ok |-> TRUE, raised |-> FALSE,
          c  |-> [c EXCEPT !.node = Last(c.parent_stack),
                           !.parent_stack = Front(@),
                           !.node_dirty = FALSE]]

\* goto_parent that drops the popped ancestor instead of caching it (line
\* 102 without the assignment to _node).
goto_parent_StaleNode(t, c) ==
    IF c.path = <<>>
    THEN [ok |-> FALSE, raised |-> FALSE, c |-> c]
    ELSE IF c.parent_stack = <<>>
    THEN [ok |-> FALSE, raised |-> TRUE, c |-> c]
    ELSE [ok |-> TRUE, raised |-> FALSE,
          c  |-> [c EXCEPT !.parent_stack = Front(@),
                           !.path = Front(@),
                           !.node_dirty = FALSE]]

\* lines 99-105
goto_parent(t, c) ==
    IF c.path = <<>>
    THEN [ok |-> FALSE, raised |-> FALSE, c |-> c]
    ELSE IF c.parent_stack = <<>>
    THEN [ok |-> FALSE, raised |-> TRUE, c |-> c]
    ELSE [ok |-> TRUE, raised |-> FALSE,
          c  |-> [c EXCEPT !.node = Last(c.parent_stack),
                           !.parent_stack = Front(@),
                           !.path = Front(@),
                           !.node_dirty = FALSE]]

\* lines 107-119
goto_next_sibling(t, c) ==
    IF c.parent_stack = <<>>
    THEN [ok |-> FALSE, raised |-> FALSE, c |-> c]
    ELSE IF c.path = <<>>
    THEN [ok |-> FALSE, raised |-> TRUE, c |-> c]
    ELSE LET curr_child_idx == Last(c.path)
             parent == Last(c.parent_stack)
         IN IF curr_child_idx + 1 < child_count(t, parent)
            THEN [ok |-> TRUE, raised |-> FALSE,
                  c  |-> [c EXCEPT !.path[Len(c.path)] = @ + 1,
                                   !.node_dirty = TRUE]]
            ELSE [ok |-> FALSE, raised |-> FALSE, c |-> c]

----------------------------------------------------------------------------
(* traversals.py: traverse *)

\* A predicate on node values is the set of nodes at which it returns true
\* (holds) and the set of nodes at which it raises instead of returning.
\* should_traverse=None
None == [given |-> FALSE, holds |-> {}, raises |-> {}]

\* a predicate that always returns
Predicate(S) == [given |-> TRUE, holds |-> S, raises |-> {}]

\* a predicate that raises at the nodes of R
Raising(S, R) == [given |-> TRUE, holds |-> S, raises |-> R]

\* A walk is the generator together with the cursor it drives and the steps
\* it has yielded: [cursor, gen, out].  gen.pc is where the generator stands:
\*   "start" at the top of the while loop (line 54)
\*   "y59"   suspended at the yield of line 59
\*   "y71"   suspended at the yield of line 71
\*   "l73"   before line 73, not having yielded (the node was skipped)
\*   "l79"   at the top of the retracing loop (line 78)
\*   "y83"   suspended at the yield of line 83
\*   "done"  returned
\*   "raised" ended by an exception that went out to the caller of next()
NewWalk(t) ==
    [cursor |-> tuple_cursor(t),
     gen    |-> [pc |-> "start", reached_root |-> FALSE, last_move |-> "DOWN",
                 skip_current_node |-> FALSE],
     out    |-> <<>>]

\* yield cursor, move: the consumer reads cursor.node when it gets the step.
Yield(t, w, move, pc) ==
    [w EXCEPT !.out = Append(@, <<node_value(t, w.cursor), move>>),
              !.cursor = node_refresh(t, w.cursor),
              !.gen.pc = pc]

\* lines 55-56: the predicate is a function of cursor.node
SkipCurrentNode(t, st, c) ==
    IF st.given THEN ~(node_value(t, c) \in st.holds) ELSE FALSE

\* Visit with the yield moved out of the test of skip_current_node: a node at
\* which the predicate fails is emitted like any other.
Visit_EmitsSkipped(t, st, w) ==
    LET skip == SkipCurrentNode(t, st, w.cursor)
        c    == IF st.given THEN node_refresh(t, w.cursor) ELSE w.cursor
        w1   == [w EXCEPT !.gen.skip_current_node = skip, !.cursor = c]
    IN Yield(t, w1, w.gen.last_move, IF skip THEN "l73" ELSE "y59")

\* lines 55-56: the call of the predicate ends in an exception
PredicateRaises(t, st, c) == st.given /\ node_value(t, c) \in st.raises

\* Visit that takes an exception of the predicate for a refusal, as if the
\* call of lines 55-56 stood in a try block whose handler skips the node.
Visit_SwallowsRaise(t, st, w) ==
    LET skip == SkipCurrentNode(t, st, w.cursor)
        c    == IF st.given THEN node_refresh(t, w.cursor) ELSE w.cursor
        w1   == [w EXCEPT !.gen.skip_current_node = skip, !.cursor = c]
    IN IF ~skip THEN Yield(t, w1, w.gen.last_move, "y59")
       ELSE [w1 EXCEPT !.gen.pc = "l73"]

\* lines 54-59; an exception of the predicate is not caught: it ends the
\* generator before skip_current_node is assigned
Visit(t, st, w) ==
    LET skip == SkipCurrentNode(t, st, w.cursor)
        c    == IF st.given THEN node_refresh(t, w.cursor) ELSE w.cursor
        w1   == [w EXCEPT !.gen.skip_current_node = skip, !.cursor = c]
    IN IF PredicateRaises(t, st, w.cursor)
       THEN [w EXCEPT !.cursor = c, !.gen.pc = "raised"]
       ELSE IF ~skip THEN Yield(t, w1, w.gen.last_move, "y59")
       ELSE [w1 EXCEPT !.gen.pc = "l73"]

\* Descend without the synthetic UP of a leaf (line 71 dropped).
Descend_NoLeafUp(t, w) ==
    LET r == goto_first_child(t, w.cursor) IN
    IF r.ok
    THEN [w EXCEPT !.cursor = r.c, !.gen.last_move = "DOWN", !.gen.pc = "start"]
    ELSE [w EXCEPT !.gen.pc = "l73"]

\* lines 63-71
Descend(t, w) ==
    LET r == goto_first_child(t, w.cursor) IN
    IF r.ok
    THEN [w EXCEPT !.cursor = r.c, !.gen.last_move = "DOWN", !.gen.pc = "start"]
    ELSE Yield(t, w, "UP", "y71")

\* line 74
MoveAfterSibling(skip_current_node) ==
    IF ~skip_current_node THEN "RIGHT" ELSE "DOWN"

\* Sibling that gives up the level after a skipped node: the siblings to the
\* right of a pruned node are never tried.
Sibling_SkippedEndsLevel(t, w) ==
    LET r == goto_next_sibling(t, w.cursor) IN
    IF r.ok /\ ~w.gen.skip_current_node
    THEN [w EXCEPT !.cursor = r.c, !.gen.last_move = "RIGHT", !.gen.pc = "start"]
    ELSE [w EXCEPT !.gen.pc = "l79"]

\* Sibling that ends the walk when a skipped node has no sibling to its
\* right, instead of retracing through its ancestors.
Sibling_SkippedLastEnds(t, w) ==
    LET r == goto_next_sibling(t, w.cursor) IN
    IF r.ok
    THEN [w EXCEPT !.cursor = r.c,
                   !.gen.last_move = IF ~w.gen.skip_current_node THEN "RIGHT" ELSE "DOWN",
                   !.gen.pc = "start"]
    ELSE IF w.gen.skip_current_node
         THEN [w EXCEPT !.gen.reached_root = TRUE, !.gen.pc = "done"]
         ELSE [w EXCEPT !.gen.pc = "l79"]

\* lines 73-77
Sibling(t, w) ==
    LET r == goto_next_sibling(t, w.cursor) IN
    IF r.ok
    THEN [w EXCEPT !.cursor = r.c,
                   !.gen.last_move = MoveAfterSibling(w.gen.skip_current_node),
                   !.gen.pc = "start"]
    ELSE [w EXCEPT !.gen.pc = "l79"]

\* Retrace that, back on the parent, goes on as if the parent had just been
\* visited, so that the walk descends into its children again.
Retrace_Redescends(t, w) ==
    LET r == goto_parent(t, w.cursor) IN
    IF ~r.ok
    THEN [w EXCEPT !.gen.reached_root = TRUE, !.gen.pc = "done"]
    ELSE [w EXCEPT !.cursor = r.c, !.gen.pc = "y59"]

\* lines 78-83
Retrace(t, w) ==
    LET r == goto_parent(t, w.cursor) IN
    IF ~r.ok
    THEN [w EXCEPT !.gen.reached_root = TRUE, !.gen.pc = "done"]
    ELSE Yield(t, [w EXCEPT !.cursor = r.c], "UP", "y83")

\* RetraceSibling that never tries the sibling of the ancestor it has
\* ascended to (lines 85-87 dropped).
RetraceSibling_NoSibling(t, w) == [w EXCEPT !.gen.pc = "l79"]

\* RetraceSibling that ends the walk at the first ancestor without a next
\* sibling, as if line 87's break were followed by `else: reached_root = True;
\* break`.
RetraceSibling_EndsAtLast(t, w) ==
    LET r == goto_next_sibling(t, w.cursor) IN
    IF r.ok
    THEN [w EXCEPT !.cursor = r.c, !.gen.last_move = "RIGHT", !.gen.pc = "start"]
    ELSE [w EXCEPT !.gen.reached_root = TRUE, !.gen.pc = "done"]

\* lines 85-87
RetraceSibling(t, w) ==
    LET r == goto_next_sibling(t, w.cursor) IN
    IF r.ok
    THEN [w EXCEPT !.cursor = r.c, !.gen.last_move = "RIGHT", !.gen.pc = "start"]
    ELSE [w EXCEPT !.gen.pc = "l79"]

\* One step of the generator from where it stands.
TraverseStep(t, st, w) ==
    CASE w.gen.pc = "start" -> Visit(t, st, w)
      [] w.gen.pc = "y59"   -> Descend(t, w)
      [] w.gen.pc \in {"y71", "l73"} -> Sibling(t, w)
      [] w.gen.pc = "l79"   -> Retrace(t, w)
      [] w.gen.pc = "y83"   -> RetraceSibling(t, w)
      [] OTHER              -> w

RECURSIVE RunWalk(_, _, _)
\* list(traverse(cursor, should_traverse)): the walk run to its end
RunWalk(t, st, w) ==
    IF w.gen.pc \in {"done", "raised"} THEN w
    ELSE RunWalk(t, st, TraverseStep(t, st, w))

traverse(t, st) == RunWalk(t, st, NewWalk(t)).out

----------------------------------------------------------------------------
(* iter.py: iternodes, iternodes_with_parent, iternodes_with_edges *)

\* a filter argument applied to a node value; None is always(True)
Holds(f, n) == ~f.given \/ n \in f.holds

\* the steps filter_moves(DOWN, RIGHT) keeps (traversals.py 94-98)
IsArrival(step) == step[2] \in {"DOWN", "RIGHT"}

RECURSIVE ArrivalNodes(_, _)
ArrivalNodes(s, i) ==
    IF i > Len(s) THEN <<>>
    ELSE (IF IsArrival(s[i]) THEN <<s[i][1]>> ELSE <<>>) \o ArrivalNodes(s, i + 1)

\* lines 64-65: lambda cursor: traversal_filter(cursor.node) if traversal_filter else True
iternodes_should_traverse(t, tf) ==
    [given |-> TRUE, holds |-> IF tf.given THEN tf.holds ELSE t.nodes,
     raises |-> {}]

\* iter.py imports walk_tree from traversals.py, which defines the walk under
\* the name traverse.
walk_tree(t, st, w) == TraverseStep(t, st, w)

\* lines 66-67: filter_moves(DOWN, RIGHT), then the node of each step
iternodes_project(s) == ArrivalNodes(s, 1)

\* The generators of iternodes_with_parent and iternodes_with_edges are
\* records [cursor, gen, out, pstack]; gen.pc is
\*   "start" at the top of the while loop
\*   "yield" suspended at the yield
\*   "sib"   before the goto_next_sibling that follows the if
\*   "retr"  at the top of the retracing loop
\*   "done"  returned
NewIter(t) ==
    [cursor |-> tuple_cursor(t),
     gen    |-> [pc |-> "start", reached_root |-> FALSE, node |-> 0],
     out    |-> <<>>,
     pstack |-> <<>>]

\* parent_stack[-1] if parent_stack else None
TopOrNone(stack) == IF stack # <<>> THEN Last(stack) ELSE 0

\* WPVisit with the yield outside the test of traversal_filter.
WPVisit_YieldsPruned(t, tf, w) ==
    LET c    == node_refresh(t, w.cursor)
        node == node_value(t, w.cursor)
        w1   == [w EXCEPT !.cursor = c, !.gen.node = node,
                          !.out = Append(@, <<node, TopOrNone(w.pstack)>>)]
    IN IF Holds(tf, node)
       THEN [w1 EXCEPT !.gen.pc = "yield"]
       ELSE [w1 EXCEPT !.gen.pc = "sib"]

\* iternodes_with_parent, lines 138-145
WPVisit(t, tf, w) ==
    LET c    == node_refresh(t, w.cursor)
        node == node_value(t, w.cursor)
        w1   == [w EXCEPT !.cursor = c, !.gen.node = node]
    IN IF Holds(tf, node)
       THEN [w1 EXCEPT !.out = Append(@, <<node, TopOrNone(w.pstack)>>),
                       !.gen.pc = "yield"]
       ELSE [w1 EXCEPT !.gen.pc = "sib"]

\* WPDescend that pushes every node it descends from, whatever parent_filter
\* says of it (line 148 dropped).
WPDescend_PushesAll(t, pf, w) ==
    LET r == goto_first_child(t, w.cursor) IN
    IF r.ok
    THEN [w EXCEPT !.cursor = r.c,
                   !.pstack = Append(@, w.gen.node),
                   !.gen.pc = "start"]
    ELSE [w EXCEPT !.gen.pc = "sib"]

\* iternodes_with_parent, lines 147-151
WPDescend(t, pf, w) ==
    LET r == goto_first_child(t, w.cursor) IN
    IF r.ok
    THEN [w EXCEPT !.cursor = r.c,
                   !.pstack = IF Holds(pf, w.gen.node) THEN Append(@, w.gen.node) ELSE @,
                   !.gen.pc = "start"]
    ELSE [w EXCEPT !.gen.pc = "sib"]

\* lines 153-154 (and 207-208)
IterSibling(t, w) ==
    LET r == goto_next_sibling(t, w.cursor) IN
    IF r.ok THEN [w EXCEPT !.cursor = r.c, !.gen.pc = "start"]
    ELSE [w EXCEPT !.gen.pc = "retr"]

\* where the generator stands after one turn of the retracing loop
AfterRetrace(up_ok, sib_ok) ==
    IF ~up_ok THEN "done" ELSE IF sib_ok THEN "start" ELSE "retr"

\* a retracing turn that pops whenever the stack is not empty, as that of
\* iternodes_with_edges does (line 161 without the parent_filter test)
WPRetrace_PopsAlways(t, pf, w) ==
    LET up   == goto_parent(t, w.cursor)
        c1   == IF w.pstack # <<>> THEN node_refresh(t, up.c) ELSE up.c
        sib  == goto_next_sibling(t, c1)
    IN [w EXCEPT !.cursor = sib.c,
                 !.pstack = IF @ # <<>> THEN Front(@) ELSE @,
                 !.gen.reached_root = ~up.ok,
                 !.gen.pc = AfterRetrace(up.ok, sib.ok)]

\* iternodes_with_parent, lines 157-166: one turn of the retracing loop
WPRetrace(t, pf, w) ==
    LET up   == goto_parent(t, w.cursor)
        pop  == w.pstack # <<>> /\ Holds(pf, node_value(t, up.c))
        c1   == IF w.pstack # <<>> THEN node_refresh(t, up.c) ELSE up.c
        sib  == goto_next_sibling(t, c1)
    IN [w EXCEPT !.cursor = sib.c,
                 !.pstack = IF pop THEN Front(@) ELSE @,
                 !.gen.reached_root = ~up.ok,
                 !.gen.pc = AfterRetrace(up.ok, sib.ok)]

\* TreeCursor.current_field_name() of the tree-sitter library: the label of
\* the edge from the parent; here the child's index, 0 (None) at the root.
current_field_name(t, c) == IF c.path = <<>> THEN 0 ELSE Last(c.path) + 1

\* iternodes_with_edges, lines 194-201
WEVisit(t, tf, w) ==
    LET c    == node_refresh(t, w.cursor)
        node == node_value(t, w.cursor)
        w1   == [w EXCEPT !.cursor = c, !.gen.node = node]
    IN IF Holds(tf, node)
       THEN [w1 EXCEPT !.out = Append(@, <<node, TopOrNone(w.pstack),
                                           current_field_name(t, c)>>),
                       !.gen.pc = "yield"]
       ELSE [w1 EXCEPT !.gen.pc = "sib"]

\* iternodes_with_edges, lines 203-205
WEDescend(t, w) ==
    LET r == goto_first_child(t, w.cursor) IN
    IF r.ok
    THEN [w EXCEPT !.cursor = r.c,
                   !.pstack = Append(@, w.gen.node),
                   !.gen.pc = "start"]
    ELSE [w EXCEPT !.gen.pc = "sib"]

\* a walk that ends where the siblings end instead of climbing back: the
\* retracing loop left out
WERetrace_NoClimb(t, w) ==
    [w EXCEPT !.gen.reached_root = TRUE, !.gen.pc = "done"]

\* iternodes_with_edges, lines 210-220: one turn of the retracing loop
WERetrace(t, w) ==
    LET up  == goto_parent(t, w.cursor)
        sib == goto_next_sibling(t, up.c)
    IN [w EXCEPT !.cursor = sib.c,
                 !.pstack = IF @ # <<>> THEN Front(@) ELSE @,
                 !.gen.reached_root = ~up.ok,
                 !.gen.pc = AfterRetrace(up.ok, sib.ok)]

\* the node of every yielded tuple
RECURSIVE Nodes(_, _)
Nodes(s, i) == IF i > Len(s) THEN <<>> ELSE <<s[i][1]>> \o Nodes(s, i + 1)

----------------------------------------------------------------------------
(* traversals.py: TraversalHook.bind, Height, BroadcastL *)

\* NO_CONTEXT, the absent sentinel; every context value is a positive number.
NO_CONTEXT == 0

\* The combine functions handed to broadcastl:
\*   "map"      lambda _, cursor: context.get(cursor.node, NO_CONTEXT), the
\*              value kept for a node being the node's own value
\*   "reducer"  get_context of the tests: node if prev is absent, else
\*              prev * 10 + node
\*   "default"  broadcastl's default, lambda x, _: x
Apply(fn, prev_context, node) ==
    CASE fn.kind = "map"     -> IF node \in fn.keys THEN node ELSE NO_CONTEXT
      [] fn.kind = "reducer" -> IF prev_context = NO_CONTEXT THEN node
                                ELSE prev_context * 10 + node
      [] OTHER               -> prev_context

\* Height.__init__
Height == [kind |-> "Height", height |-> 0]

\* lines 319-322
Height_enter(h, step) ==
    IF step[2] = "DOWN" THEN [h EXCEPT !.height = @ + 1] ELSE h

\* lines 324-327
Height_exit(h, step) ==
    IF step[2] = "UP" THEN [h EXCEPT !.height = @ - 1] ELSE h

Height_snapshot(h) == h.height

\* BroadcastL.__init__
BroadcastL(fn) ==
    [kind |-> "BroadcastL", fn |-> fn, context_stack |-> <<>>, height_hook |-> Height]

BroadcastL_snapshot(b) ==
    IF b.context_stack = <<>> THEN NO_CONTEXT ELSE Last(b.context_stack)[2]

\* lines 352-361
BroadcastL_enter(b, step) ==
    LET hh     == Height_enter(b.height_hook, step)
        height == Height_snapshot(hh)
        pop    == /\ step[2] = "UP"
                  /\ b.context_stack # <<>>
                  /\ Last(b.context_stack)[1] = height
    IN [b EXCEPT !.height_hook = hh,
                 !.context_stack = IF pop THEN Front(@) ELSE @]

\* lines 367-370: the call self.fn(prev_context, cursor) that exit makes in
\* a RIGHT or DOWN step, as what it is handed and what it returns; node is
\* cursor.node, read by fn from the step's cursor
BroadcastL_call(b, node) ==
    LET prev_context == IF b.context_stack # <<>>
                        THEN Last(b.context_stack)[2] ELSE NO_CONTEXT
    IN [prev_context |-> prev_context, node |-> node,
        context_value |-> Apply(b.fn, prev_context, node)]

\* the calls of combine that hook.exit(step) makes
fn_called(h, step, node) ==
    IF h.kind = "BroadcastL" /\ step[2] \in {"RIGHT", "DOWN"}
    THEN <<BroadcastL_call(h, node)>>
    ELSE <<>>

\* an exit without the isinstance test of line 372: whatever combine returns
\* is pushed
BroadcastL_exit_PushesAll(b, step, node) ==
    LET hh     == Height_exit(b.height_hook, step)
        height == Height_snapshot(hh)
        context_value == BroadcastL_call(b, node).context_value
    IN IF step[2] \in {"RIGHT", "DOWN"}
       THEN [b EXCEPT !.height_hook = hh,
                      !.context_stack = Append(@, <<height, context_value>>)]
       ELSE [b EXCEPT !.height_hook = hh]

\* lines 363-373
BroadcastL_exit(b, step, node) ==
    LET hh     == Height_exit(b.height_hook, step)
        height == Height_snapshot(hh)
        context_value == BroadcastL_call(b, node).context_value
    IN IF step[2] \in {"RIGHT", "DOWN"} /\ context_value # NO_CONTEXT
       THEN [b EXCEPT !.height_hook = hh,
                      !.context_stack = Append(@, <<height, context_value>>)]
       ELSE [b EXCEPT !.height_hook = hh]

RECURSIVE enter(_, _), snapshot(_), exit(_, _, _)

\* MergedHooks.__init__ (lines 227-229)
MergedHooks(hooks) == [kind |-> "MergedHooks", hooks |-> hooks]

\* lines 203-219: self | other is self.merge(other)
merge(self, other) == MergedHooks(<<self, other>>)

\* lines 231-232
MergedHooks_snapshot(m) ==
    [k \in 1..Len(m.hooks) |-> snapshot(m.hooks[k])]

\* MergedHooks_enter that stops after the first of its hooks.
MergedHooks_enter_FirstOnly(m, step) ==
    [m EXCEPT !.hooks = [k \in 1..Len(@) |->
                            IF k = 1 THEN enter(@[k], step) ELSE @[k]]]

\* lines 234-236
MergedHooks_enter(m, step) ==
    [m EXCEPT !.hooks = [k \in 1..Len(@) |-> enter(@[k], step)]]

\* lines 238-240; every hook's fn reads the same cursor
MergedHooks_exit(m, step, node) ==
    [m EXCEPT !.hooks = [k \in 1..Len(@) |-> exit(@[k], step, node)]]

\* hook.enter(step), by the class of the hook
enter(h, step) ==
    CASE h.kind = "Height"      -> Height_enter(h, step)
      [] h.kind = "MergedHooks" -> MergedHooks_enter(h, step)
      [] OTHER                  -> BroadcastL_enter(h, step)

\* hook.snapshot()
snapshot(h) ==
    CASE h.kind = "Height"      -> Height_snapshot(h)
      [] h.kind = "MergedHooks" -> MergedHooks_snapshot(h)
      [] OTHER                  -> BroadcastL_snapshot(h)

\* hook.exit(step)
exit(h, step, node) ==
    CASE h.kind = "Height"      -> Height_exit(h, step)
      [] h.kind = "MergedHooks" -> MergedHooks_exit(h, step, node)
      [] OTHER                  -> BroadcastL_exit(h, step, node)

----------------------------------------------------------------------------
(* core.py: sexp.  A string is the sequence of its characters.              *)

\* the generator of iternodes_with_edges at its next suspension or its end
WEStep(t, tf, w) ==
    CASE w.gen.pc = "start" -> WEVisit(t, tf, w)
      [] w.gen.pc = "yield" -> WEDescend(t, w)
      [] w.gen.pc = "sib"   -> IterSibling(t, w)
      [] w.gen.pc = "retr"  -> WERetrace(t, w)

RECURSIVE WERun(_, _, _)
WERun(t, tf, w) ==
    IF w.gen.pc = "done" THEN w.out ELSE WERun(t, tf, WEStep(t, tf, w))

\* everything iternodes_with_edges(cursor, traversal_filter) yields
iternodes_with_edges(t, tf) == WERun(t, tf, NewIter(t))

RECURSIVE KeepNamed(_, _, _)
\* named_node_w_edges: the tuples whose node is named
KeepNamed(stream, named, i) ==
    IF i > Len(stream) THEN <<>>
    ELSE (IF stream[i][1] \in named THEN <<stream[i]>> ELSE <<>>)
         \o KeepNamed(stream, named, i + 1)

named_node_w_edges(t, named, tf) ==
    KeepNamed(iternodes_with_edges(t, tf), named, 1)

\* Node.named_child_count
named_child_count(t, named, node) ==
    Cardinality({ c \in t.nodes : t.par[c] = node /\ c \in named })

\* node.type of the nodes 1, 2, ... and the field names 1, 2, ... as text
TypeNames == <<"a", "b", "c", "d", "e", "f", "g", "h">>

EdgeNames == <<"1", "2", "3", "4", "5", "6", "7", "8">>

\* the default node_to_str: lambda node: node.type
node_to_str(node) == <<TypeNames[node]>>

RECURSIVE SumOfLen(_, _)
\* sum(map(len, outputs))
SumOfLen(outputs, i) ==
    IF i > Len(outputs) THEN 0 ELSE Len(outputs[i]) + SumOfLen(outputs, i + 1)

RECURSIVE Join(_, _, _)
\* sep.join(outputs)
Join(sep, outputs, i) ==
    IF i > Len(outputs) THEN <<>>
    ELSE IF i = Len(outputs) THEN outputs[i]
    ELSE outputs[i] \o sep \o Join(sep, outputs, i + 1)

\* " " * n
Spaces(n) == [i \in 1..n |-> " "]

\* lines 98-124: the lines of a node whose children gave child_outputs
sexp_lines(node, parent, edge, child_outputs, wrap_at) ==
    LET field_prefix == IF edge # 0 THEN <<EdgeNames[edge], ":", " ">> ELSE <<>>
        node_repr    == <<"(">> \o node_to_str(node)
        first        == field_prefix \o node_repr
        final_outputs ==
            IF SumOfLen(child_outputs, 1) < wrap_at
            THEN <<first \o Join(<<" ">>, child_outputs, 1)>>
            ELSE <<first>> \o
                 [i \in 1..Len(child_outputs) |->
                     Spaces(Len(field_prefix)) \o child_outputs[i]]
        closed == [final_outputs EXCEPT ![Len(final_outputs)] = @ \o <<")">>]
        indentation == IF parent = 0 THEN <<>> ELSE <<" ">>
    IN [i \in 1..Len(closed) |-> indentation \o closed[i]]

\* what a call of sexp_from_stream ends in: the exception it raises if any,
\* the position of the iterator after it, the lines it returns
Ended(error, pos, lines) == [error |-> error, pos |-> pos, lines |-> lines]

RECURSIVE sexp_from_stream(_, _), sexp_children(_, _, _, _)
\* lines 89-96: the for loop with `count` turns left; a StopIteration of the
\* recursive call is caught and ValueError raised, any other exception of it
\* passes through
sexp_children(a, pos, count, child_outputs) ==
    IF count = 0 THEN Ended("none", pos, child_outputs)
    ELSE LET r == sexp_from_stream(a, pos) IN
         IF r.error = "StopIteration" THEN Ended("ValueError", r.pos, <<>>)
         ELSE IF r.error # "none" THEN r
         ELSE sexp_children(a, r.pos, count - 1, child_outputs \o r.lines)

\* lines 80-124; the next() of line 81 is in no try statement
sexp_from_stream(a, pos) ==
    IF pos > Len(a.stream) THEN Ended("StopIteration", pos, <<>>)
    ELSE LET node   == a.stream[pos][1]
             parent == a.stream[pos][2]
             edge   == a.stream[pos][3]
             kids   == sexp_children(a, pos + 1,
                          named_child_count(a.tree, a.named, node), <<>>)
         IN IF kids.error # "none" THEN kids
            ELSE Ended("none", kids.pos,
                       sexp_lines(node, parent, edge, kids.lines, a.wrap))

\* sexp(tree, wrap, traversal_filter=tf), lines 74-128
sexp(t, named, wrap_at, tf) ==
    LET r == sexp_from_stream([tree |-> t, named |-> named, wrap |-> wrap_at,
                               stream |-> named_node_w_edges(t, named, tf)], 1)
    IN IF r.error = "none"
       THEN [pc |-> "returned", error |-> "none",
             value |-> Join(<<"\n">>, r.lines, 1)]
       ELSE [pc |-> "raised", error |-> r.error, value |-> <<>>]

----------------------------------------------------------------------------
(* collections.py: NodeDict and NodeCollection.  A tree-sitter node is a    *)
(* record [obj, start_byte, end_byte, type]; obj tells apart the Python     *)
(* objects that two accesses of one node of the tree produce.               *)

\* core.hash_node: the structural key (start offset, end offset, kind)
hash_node(node) == <<node.start_byte, node.end_byte, node.type>>

\* A Python dict is the sequence of its entries in insertion order; each
\* entry carries the key it is stored under in its field hash.
RECURSIVE dict_index(_, _, _)
dict_index(d, key, i) ==
    IF i > Len(d) THEN 0
    ELSE IF d[i].hash = key THEN i ELSE dict_index(d, key, i + 1)

\* key in d
dict_contains(d, key) == dict_index(d, key, 1) # 0

\* d[key], for a key that is in d
dict_get(d, key) == d[dict_index(d, key, 1)]

\* d[key] = entry: a key that is in d keeps its place
dict_set(d, key, entry) ==
    IF dict_contains(d, key)
    THEN [d EXCEPT ![dict_index(d, key, 1)] = entry]
    ELSE Append(d, entry)

\* del d[key], for a key that is in d
dict_del(d, key) ==
    LET i == dict_index(d, key, 1) IN
    SubSeq(d, 1, i - 1) \o SubSeq(d, i + 1, Len(d))

\* what a call gives its caller: a returned value or an exception
Returns(v) == [raised |-> FALSE, error |-> "none", value |-> v]

Raises(e) == [raised |-> TRUE, error |-> e, value |-> e]

\* NodeDict(): no iterable
NodeDict == <<>>

\* NodeDict.__getitem__
NodeDict_getitem(mapping, node) ==
    LET hash == hash_node(node) IN
    IF ~dict_contains(mapping, hash)
    THEN Raises("KeyError")
    ELSE Returns(dict_get(mapping, hash).data)

\* a __setitem__ that leaves a key that is present as it is, as if it were
\* self._mapping.setdefault(_hash, NodeDictValue(node, value))
NodeDict_setitem_KeepsFirst(mapping, node, value) ==
    LET hash == hash_node(node) IN
    IF dict_contains(mapping, hash)
    THEN mapping
    ELSE Append(mapping, [hash |-> hash, node |-> node, data |-> value])

\* NodeDict.__setitem__
NodeDict_setitem(mapping, node, value) ==
    LET hash == hash_node(node) IN
    dict_set(mapping, hash, [hash |-> hash, node |-> node, data |-> value])

\* NodeDict.__delitem__: the mapping after it, or the KeyError of del
NodeDict_delitem(mapping, node) ==
    LET hash == hash_node(node) IN
    IF dict_contains(mapping, hash)
    THEN [raised |-> FALSE, mapping |-> dict_del(mapping, hash)]
    ELSE [raised |-> TRUE, mapping |-> mapping]

\* NodeDict.__len__
NodeDict_len(mapping) == Returns(Len(mapping))

\* node in node_dict: Mapping.__contains__, which tries self[node]
NodeDict_contains(mapping, node) ==
    Returns(~NodeDict_getitem(mapping, node).raised)

\* NodeCollection.add: the id is taken from the counter at every call
NodeCollection_add(coll, node) ==
    LET node_hash == hash_node(node) IN
    [nodes      |-> dict_set(coll.nodes, node_hash,
                             [hash |-> node_hash, node |-> node,
                              id |-> coll.id_counter]),
     id_counter |-> coll.id_counter + 1]

RECURSIVE NodeCollection_addall(_, _, _)
\* the for loop of NodeCollection.__init__
NodeCollection_addall(coll, iterable, i) ==
    IF i > Len(iterable) THEN coll
    ELSE NodeCollection_addall(NodeCollection_add(coll, iterable[i]),
                               iterable, i + 1)

\* NodeCollection(iterable)
NodeCollection(iterable) ==
    NodeCollection_addall([nodes |-> <<>>, id_counter |-> 0], iterable, 1)

\* NodeCollection.__getitem__
NodeCollection_getitem(coll, node) ==
    LET node_hash == hash_node(node) IN
    IF ~dict_contains(coll.nodes, node_hash)
    THEN Raises("ValueError")
    ELSE Returns(dict_get(coll.nodes, node_hash).id)

\* a remove that fills the hole with the last entry, as a list-backed
\* collection removing by swap would
NodeCollection_remove_SwapsLast(coll, node) ==
    LET node_hash == hash_node(node)
        i == dict_index(coll.nodes, node_hash, 1)
        n == Len(coll.nodes)
    IN IF dict_contains(coll.nodes, node_hash)
       THEN [raised |-> FALSE,
             coll   |-> [coll EXCEPT !.nodes =
                            [k \in 1..(n - 1) |->
                                IF k = i THEN coll.nodes[n]
                                ELSE coll.nodes[k]]]]
       ELSE [raised |-> TRUE, coll |-> coll]

\* NodeCollection.remove: the collection after it, or the KeyError of del
NodeCollection_remove(coll, node) ==
    LET node_hash == hash_node(node) IN
    IF dict_contains(coll.nodes, node_hash)
    THEN [raised |-> FALSE,
          coll   |-> [coll EXCEPT !.nodes = dict_del(@, node_hash)]]
    ELSE [raised |-> TRUE, coll |-> coll]

\* NodeCollection.__len__
NodeCollection_len(coll) == Returns(Len(coll.nodes))

\* list(NodeCollection.__iter__())
NodeCollection_iter(coll) ==
    Returns([i \in 1..Len(coll.nodes) |->
                <<coll.nodes[i].id, coll.nodes[i].node>>])

\* NodeCollection.__contains__
NodeCollection_contains(coll, node) ==
    Returns(dict_contains(coll.nodes, hash_node(node)))

----------------------------------------------------------------------------
(* The running program *)

W == [cursor |-> cursor, gen |-> gen, out |-> out]

Commit(w) ==
    /\ cursor' = w.cursor
    /\ gen' = w.gen
    /\ out' = w.out

NoHook == [kind |-> "none"]

Idle == [pc |-> "pull"]

\* no navigation method of the cursor has been called yet
NoCalls == [goto_first_child |-> 0, goto_next_sibling |-> 0, goto_parent |-> 0]

\* one more call of the navigation method `method`
Called(method) == navs' = [navs EXCEPT ![method] = @ + 1]

\* the stream is not wrapped in with_height
NotWrapped == [pc |-> "none", height |-> 0]

\* no navigation call has been made by a caller of the cursor
NoCall == [on |-> "none", op |-> "none", ok |-> FALSE, raised |-> FALSE]

\* no container is in use and sexp is not called
NoContainers ==
    /\ node_dict = NodeDict
    /\ node_collection = NodeCollection(<<>>)
    /\ given = <<>>
    /\ ops = <<>>
    /\ is_named = {}
    /\ wrap = 0
    /\ sexp_out = [pc |-> "none"]
    /\ fn_calls = <<>>

\* list(traverse(tuple_cursor(tree), should_traverse))
Init ==
    /\ tree \in Trees(MaxNodes)
    /\ should_traverse \in
          {None} \cup { Predicate(S) : S \in SUBSET tree.nodes }
    /\ cursor = NewWalk(tree).cursor
    /\ gen = NewWalk(tree).gen
    /\ out = <<>>
    /\ mode = "traverse"
    /\ traversal_filter = None
    /\ parent_filter = None
    /\ pstack = <<>>
    /\ lists = <<>>
    /\ hook = NoHook
    /\ bind = Idle
    /\ snaps = <<>>
    /\ navs = NoCalls
    /\ wh = NotWrapped
    /\ call = NoCall
    /\ ref = Root(tree)
    /\ c2 = NoCopy
    /\ req = "loop"
    /\ NoContainers

Rest == UNCHANGED <<tree, should_traverse, mode, traversal_filter,
                    parent_filter, pstack, lists, hook, snaps, call, ref, c2,
                    containers>>

\* bind's for loop has the stream's next step (line 198)
Received == [pc |-> "enter"]

\* The consumer of the stream takes the step: a bound hook is entered next.
Taken(w) ==
    /\ IF Len(w.out) > Len(out) /\ hook.kind # "none"
       THEN bind' = Received
       ELSE bind' = bind
    /\ IF Len(w.out) > Len(out) /\ wh.pc # "none"
       THEN wh' = [wh EXCEPT !.pc = "l104"]
       ELSE wh' = wh
    /\ IF req = "requested" /\ (Len(w.out) > Len(out) \/ w.gen.pc \in {"done", "raised"})
       THEN req' = "idle"
       ELSE req' = req

\* Running for a consumer that draws the stream ahead of its own loop, as if
\* bind began with `stream = list(stream)`.
Running_Ahead ==
    /\ mode \in {"traverse", "hook", "with_height"}
    /\ wh.pc \in {"none", "l103"}
    /\ req \in {"loop", "requested"}

\* Running for a generator that goes on to the next node as soon as a step
\* has been taken, whether or not another one is asked for.
Running_Eager ==
    /\ mode \in {"traverse", "hook", "with_height"}
    /\ bind.pc = "pull"
    /\ wh.pc \in {"none", "l103"}

\* The traversal generator runs only while its consumer is asking for the
\* next step.
Running ==
    /\ mode \in {"traverse", "hook", "with_height"}
    /\ bind.pc = "pull"
    /\ wh.pc \in {"none", "l103"}
    /\ req \in {"loop", "requested"}

TraverseVisit ==
    /\ Running /\ gen.pc = "start"
    /\ Commit(Visit(tree, should_traverse, W))
    /\ Taken(Visit(tree, should_traverse, W))
    /\ UNCHANGED navs
    /\ Rest

TraverseDescend ==
    /\ Running /\ gen.pc = "y59"
    /\ Commit(Descend(tree, W))
    /\ Taken(Descend(tree, W))
    /\ Called("goto_first_child")
    /\ Rest

TraverseSibling ==
    /\ Running /\ gen.pc \in {"y71", "l73"}
    /\ Commit(Sibling(tree, W))
    /\ Taken(Sibling(tree, W))
    /\ Called("goto_next_sibling")
    /\ Rest

TraverseRetrace ==
    /\ Running /\ gen.pc = "l79"
    /\ Commit(Retrace(tree, W))
    /\ Taken(Retrace(tree, W))
    /\ Called("goto_parent")
    /\ Rest

TraverseRetraceSibling ==
    /\ Running /\ gen.pc = "y83"
    /\ Commit(RetraceSibling(tree, W))
    /\ Taken(RetraceSibling(tree, W))
    /\ Called("goto_next_sibling")
    /\ Rest

Next ==
    \/ TraverseVisit
    \/ TraverseDescend
    \/ TraverseSibling
    \/ TraverseRetrace
    \/ TraverseRetraceSibling

Spec == Init /\ [][Next]_vars

\* list(traverse(tuple_cursor(tree), should_traverse)) with a predicate that
\* raises at some nodes and returns at the others
InitRaise ==
    /\ tree \in Trees(MaxRaiseNodes)
    /\ should_traverse \in
          { Raising(S, R) : <<S, R>> \in
              { p \in (SUBSET tree.nodes) \X (SUBSET tree.nodes) :
                    p[2] # {} /\ p[1] \cap p[2] = {} } }
    /\ cursor = NewWalk(tree).cursor
    /\ gen = NewWalk(tree).gen
    /\ out = <<>>
    /\ mode = "traverse"
    /\ traversal_filter = None
    /\ parent_filter = None
    /\ pstack = <<>>
    /\ lists = <<>>
    /\ hook = NoHook
    /\ bind = Idle
    /\ snaps = <<>>
    /\ navs = NoCalls
    /\ wh = NotWrapped
    /\ call = NoCall
    /\ ref = Root(tree)
    /\ c2 = NoCopy
    /\ req = "loop"
    /\ NoContainers

SpecRaise == InitRaise /\ [][Next]_vars

\* stream = traverse(tuple_cursor(tree), should_traverse), from which a
\* consumer takes steps one by one with next(stream), when it likes, and
\* which it may abandon after any step
InitPull ==
    /\ tree \in Trees(MaxNodes)
    /\ should_traverse \in
          {None} \cup { Predicate(S) : S \in SUBSET tree.nodes }
    /\ cursor = NewWalk(tree).cursor
    /\ gen = NewWalk(tree).gen
    /\ out = <<>>
    /\ mode = "traverse"
    /\ traversal_filter = None
    /\ parent_filter = None
    /\ pstack = <<>>
    /\ lists = <<>>
    /\ hook = NoHook
    /\ bind = Idle
    /\ snaps = <<>>
    /\ navs = NoCalls
    /\ wh = NotWrapped
    /\ call = NoCall
    /\ ref = Root(tree)
    /\ c2 = NoCopy
    /\ req = "idle"
    /\ NoContainers

ConsumerRest == UNCHANGED <<tree, should_traverse, cursor, gen, out, mode,
                            traversal_filter, parent_filter, pstack, lists,
                            hook, bind, snaps, navs, wh, call, ref, c2,
                            containers>>

\* next(stream): the generator is resumed (or started) and runs up to its
\* next yield or to its end
Request ==
    /\ mode = "traverse" /\ req = "idle"
    /\ gen.pc \notin {"done", "raised"}
    /\ req' = "requested"
    /\ ConsumerRest

\* the consumer leaves its loop and asks for nothing more
Stop ==
    /\ mode = "traverse" /\ req = "idle"
    /\ req' = "stopped"
    /\ ConsumerRest

NextPull ==
    \/ TraverseVisit
    \/ TraverseDescend
    \/ TraverseSibling
    \/ TraverseRetrace
    \/ TraverseRetraceSibling
    \/ Request
    \/ Stop

SpecPull == InitPull /\ [][NextPull]_vars

----------------------------------------------------------------------------
(* iter.py driven as in its module docstring: each iterator is collected *)
(* into a list of nodes, on a fresh cursor over the same tree             *)

WI == [cursor |-> cursor, gen |-> gen, out |-> out, pstack |-> pstack]

CommitIter(w) ==
    /\ cursor' = w.cursor
    /\ gen' = w.gen
    /\ out' = w.out
    /\ pstack' = w.pstack

Filters(t) == {None} \cup { Predicate(S) : S \in SUBSET t.nodes }

InitIter ==
    /\ tree \in Trees(MaxIterNodes)
    /\ traversal_filter \in Filters(tree)
    /\ should_traverse = iternodes_should_traverse(tree, traversal_filter)
    /\ cursor = NewWalk(tree).cursor
    /\ gen = NewWalk(tree).gen
    /\ out = <<>>
    /\ mode = "iternodes"
    /\ parent_filter = None
    /\ pstack = <<>>
    /\ lists = <<>>
    /\ hook = NoHook
    /\ bind = Idle
    /\ snaps = <<>>
    /\ navs = NoCalls
    /\ wh = NotWrapped
    /\ call = NoCall
    /\ ref = Root(tree)
    /\ c2 = NoCopy
    /\ req = "loop"
    /\ NoContainers

IterRest == UNCHANGED <<tree, should_traverse, mode, traversal_filter,
                        parent_filter, lists, hook, bind, snaps,
                        navs, wh, call, ref, c2, req, containers>>

\* next() on the stream iternodes wraps
IterNodesPull ==
    /\ mode = "iternodes" /\ gen.pc # "done"
    /\ Commit(walk_tree(tree, should_traverse, W))
    /\ UNCHANGED pstack
    /\ IterRest

\* The list of iternodes is complete; iternodes_with_parent starts on a
\* fresh cursor, with some parent_filter.
IterNodesCollected ==
    /\ mode = "iternodes" /\ gen.pc = "done"
    /\ lists' = Append(lists, iternodes_project(out))
    /\ mode' = "iternodes_with_parent"
    /\ parent_filter' \in Filters(tree)
    /\ CommitIter(NewIter(tree))
    /\ UNCHANGED <<tree, should_traverse, traversal_filter, hook, bind, snaps,
                   navs, wh, call, ref, c2, req, containers>>

WithParentVisit ==
    /\ mode = "iternodes_with_parent" /\ gen.pc = "start"
    /\ CommitIter(WPVisit(tree, traversal_filter, WI))
    /\ IterRest

WithParentDescend ==
    /\ mode = "iternodes_with_parent" /\ gen.pc = "yield"
    /\ CommitIter(WPDescend(tree, parent_filter, WI))
    /\ IterRest

WithParentSibling ==
    /\ mode = "iternodes_with_parent" /\ gen.pc = "sib"
    /\ CommitIter(IterSibling(tree, WI))
    /\ IterRest

WithParentRetrace ==
    /\ mode = "iternodes_with_parent" /\ gen.pc = "retr"
    /\ CommitIter(WPRetrace(tree, parent_filter, WI))
    /\ IterRest

WithParentCollected ==
    /\ mode = "iternodes_with_parent" /\ gen.pc = "done"
    /\ lists' = Append(lists, Nodes(out, 1))
    /\ mode' = "iternodes_with_edges"
    /\ parent_filter' = None
    /\ CommitIter(NewIter(tree))
    /\ UNCHANGED <<tree, should_traverse, traversal_filter, hook, bind, snaps,
                   navs, wh, call, ref, c2, req, containers>>

WithEdgesVisit ==
    /\ mode = "iternodes_with_edges" /\ gen.pc = "start"
    /\ CommitIter(WEVisit(tree, traversal_filter, WI))
    /\ IterRest

WithEdgesDescend ==
    /\ mode = "iternodes_with_edges" /\ gen.pc = "yield"
    /\ CommitIter(WEDescend(tree, WI))
    /\ IterRest

WithEdgesSibling ==
    /\ mode = "iternodes_with_edges" /\ gen.pc = "sib"
    /\ CommitIter(IterSibling(tree, WI))
    /\ IterRest

WithEdgesRetrace ==
    /\ mode = "iternodes_with_edges" /\ gen.pc = "retr"
    /\ CommitIter(WERetrace(tree, WI))
    /\ IterRest

WithEdgesCollected ==
    /\ mode = "iternodes_with_edges" /\ gen.pc = "done"
    /\ lists' = Append(lists, Nodes(out, 1))
    /\ mode' = "compared"
    /\ UNCHANGED <<tree, should_traverse, cursor, gen, out, traversal_filter,
                   parent_filter, pstack, hook, bind, snaps, navs, wh, call, ref, c2, req, containers>>

NextIter ==
    \/ IterNodesPull
    \/ IterNodesCollected
    \/ WithParentVisit
    \/ WithParentDescend
    \/ WithParentSibling
    \/ WithParentRetrace
    \/ WithParentCollected
    \/ WithEdgesVisit
    \/ WithEdgesDescend
    \/ WithEdgesSibling
    \/ WithEdgesRetrace
    \/ WithEdgesCollected

SpecIter == InitIter /\ [][NextIter]_vars

----------------------------------------------------------------------------
(* hook.bind(traverse(tuple_cursor(tree))), consumed to the end *)

Fns(t) == { [kind |-> "map", keys |-> S] : S \in SUBSET t.nodes }
              \cup { [kind |-> "reducer"], [kind |-> "default"] }

InitHook ==
    /\ tree \in Trees(MaxHookNodes)
    /\ should_traverse = None
    /\ cursor = NewWalk(tree).cursor
    /\ gen = NewWalk(tree).gen
    /\ out = <<>>
    /\ mode = "hook"
    /\ traversal_filter = None
    /\ parent_filter = None
    /\ pstack = <<>>
    /\ lists = <<>>
    /\ hook \in {Height} \cup { BroadcastL(fn) : fn \in Fns(tree) }
    /\ bind = Idle
    /\ snaps = <<>>
    /\ navs = NoCalls
    /\ wh = NotWrapped
    /\ call = NoCall
    /\ ref = Root(tree)
    /\ c2 = NoCopy
    /\ req = "loop"
    /\ NoContainers

BindRest == UNCHANGED <<tree, should_traverse, gen, out, mode, traversal_filter,
                        parent_filter, pstack, lists, navs, wh, call, ref, c2, req,
                        node_dict, node_collection, given, ops, is_named,
                        wrap, sexp_out>>

\* line 199: self.enter(step), with the step the stream has just yielded
BindEnter ==
    /\ mode = "hook" /\ bind.pc = "enter"
    /\ hook' = enter(hook, Last(out))
    /\ bind' = [pc |-> "snap"]
    /\ UNCHANGED <<cursor, snaps, fn_calls>>
    /\ BindRest

\* line 200: yield self.snapshot(), step
BindYield ==
    /\ mode = "hook" /\ bind.pc = "snap"
    /\ snaps' = Append(snaps, <<snapshot(hook), Last(out)>>)
    /\ bind' = [pc |-> "exit"]
    /\ UNCHANGED <<cursor, hook, fn_calls>>
    /\ BindRest

\* line 201: self.exit(step); the for loop then asks the stream for more
BindExit ==
    /\ mode = "hook" /\ bind.pc = "exit"
    /\ hook' = exit(hook, Last(out), node_value(tree, cursor))
    /\ fn_calls' = fn_calls \o
                       fn_called(hook, Last(out), node_value(tree, cursor))
    /\ cursor' = node_refresh(tree, cursor)
    /\ bind' = [pc |-> "pull"]
    /\ UNCHANGED snaps
    /\ BindRest

NextHook ==
    \/ TraverseVisit
    \/ TraverseDescend
    \/ TraverseSibling
    \/ TraverseRetrace
    \/ TraverseRetraceSibling
    \/ BindEnter
    \/ BindYield
    \/ BindExit

SpecHook == InitHook /\ [][NextHook]_vars

\* (A | B).bind(traverse(tuple_cursor(tree))) for a Height and a BroadcastL,
\* in either order
InitMerged ==
    /\ tree \in Trees(MaxMergedNodes)
    /\ should_traverse = None
    /\ cursor = NewWalk(tree).cursor
    /\ gen = NewWalk(tree).gen
    /\ out = <<>>
    /\ mode = "hook"
    /\ traversal_filter = None
    /\ parent_filter = None
    /\ pstack = <<>>
    /\ lists = <<>>
    /\ hook \in { merge(Height, BroadcastL(fn)) : fn \in Fns(tree) }
                 \cup { merge(BroadcastL(fn), Height) : fn \in Fns(tree) }
    /\ bind = Idle
    /\ snaps = <<>>
    /\ navs = NoCalls
    /\ wh = NotWrapped
    /\ call = NoCall
    /\ ref = Root(tree)
    /\ c2 = NoCopy
    /\ req = "loop"
    /\ NoContainers

SpecMerged == InitMerged /\ [][NextHook]_vars

----------------------------------------------------------------------------
(* traversals.py: with_height(traverse(tuple_cursor(tree), should_traverse)), *)
(* consumed to the end                                                         *)

\* line 102; the for loop of line 103 then asks the stream for its first step
NewWithHeight == [pc |-> "l103", height |-> 0]

\* with_height_step that counts a level only for DOWN, as if line 104 read
\* `if move == Moves.DOWN`.
with_height_step_DownOnly(f, step) ==
    IF step[2] = "DOWN"
    THEN [f |-> [pc |-> "l103", height |-> f.height + 1],
          yielded |-> <<f.height + 1, step>>]
    ELSE [f |-> [f EXCEPT !.pc = "y108"], yielded |-> <<f.height, step>>]

\* lines 104-108: the step the stream has handed over is yielded with the
\* height, which an arrival raises first
with_height_step(f, step) ==
    IF step[2] \in {"RIGHT", "DOWN"}
    THEN [f |-> [pc |-> "l103", height |-> f.height + 1],
          yielded |-> <<f.height + 1, step>>]
    ELSE [f |-> [f EXCEPT !.pc = "y108"], yielded |-> <<f.height, step>>]

\* line 109: resumed after the yield of an UP step
with_height_resume(f) == [pc |-> "l103", height |-> f.height - 1]

InitHeight ==
    /\ tree \in Trees(MaxNodes)
    /\ should_traverse \in
          {None} \cup { Predicate(S) : S \in SUBSET tree.nodes }
    /\ cursor = NewWalk(tree).cursor
    /\ gen = NewWalk(tree).gen
    /\ out = <<>>
    /\ mode = "with_height"
    /\ traversal_filter = None
    /\ parent_filter = None
    /\ pstack = <<>>
    /\ lists = <<>>
    /\ hook = NoHook
    /\ bind = Idle
    /\ snaps = <<>>
    /\ navs = NoCalls
    /\ wh = NewWithHeight
    /\ call = NoCall
    /\ ref = Root(tree)
    /\ c2 = NoCopy
    /\ req = "loop"
    /\ NoContainers

WithHeightRest == UNCHANGED <<tree, should_traverse, cursor, gen, out, mode,
                              traversal_filter, parent_filter, pstack, lists,
                              hook, bind, navs, call, ref, c2, req, containers>>

WithHeightStep ==
    /\ mode = "with_height" /\ wh.pc = "l104"
    /\ wh' = with_height_step(wh, Last(out)).f
    /\ snaps' = Append(snaps, with_height_step(wh, Last(out)).yielded)
    /\ WithHeightRest

WithHeightResume ==
    /\ mode = "with_height" /\ wh.pc = "y108"
    /\ wh' = with_height_resume(wh)
    /\ UNCHANGED snaps
    /\ WithHeightRest

NextHeight ==
    \/ TraverseVisit
    \/ TraverseDescend
    \/ TraverseSibling
    \/ TraverseRetrace
    \/ TraverseRetraceSibling
    \/ WithHeightStep
    \/ WithHeightResume

SpecHeight == InitHeight /\ [][NextHeight]_vars

----------------------------------------------------------------------------
(* cursor_utils.py: a tuple_cursor driven by a caller, as in                *)
(* tests/test_cursor_utils.py: any navigation call in any order, and reads  *)
(* of cursor.node                                                           *)

\* the move of the tree itself that a navigation method stands for
FirstChildOf(t, n) == Children(t, n)[1]

NextSiblingOf(t, n) ==
    SetMin({ m \in t.nodes : t.par[m] = t.par[n] /\ m > n })

ParentOf(t, n) == t.par[n]

InitCursor ==
    /\ tree \in Trees(MaxCursorNodes)
    /\ should_traverse = None
    /\ cursor = tuple_cursor(tree)
    /\ gen = NewWalk(tree).gen
    /\ out = <<>>
    /\ mode = "cursor"
    /\ traversal_filter = None
    /\ parent_filter = None
    /\ pstack = <<>>
    /\ lists = <<>>
    /\ hook = NoHook
    /\ bind = Idle
    /\ snaps = <<>>
    /\ navs = NoCalls
    /\ wh = NotWrapped
    /\ call = NoCall
    /\ ref = Root(tree)
    /\ c2 = NoCopy
    /\ req = "loop"
    /\ NoContainers

CursorRest == UNCHANGED <<tree, should_traverse, gen, out, mode,
                          traversal_filter, parent_filter, pstack, lists,
                          hook, bind, snaps, navs, wh, req, containers>>

\* the caller's record of a call: the cursor it was made on, the method,
\* what it returned or that it raised, and that cursor as it was before
Returned(on, op, r, before) ==
    [on |-> on, op |-> op, ok |-> r.ok, raised |-> r.raised, before |-> before]

\* a call on the original cursor: its result r, and the tree node the move
\* leads to when it succeeds
OnCursor(op, r, target) ==
    /\ cursor' = r.c
    /\ c2' = [c2 EXCEPT !.cur = Aliased(c2.shares, r.c, @)]
    /\ call' = Returned("c", op, r, cursor)
    /\ ref' = IF r.ok THEN target ELSE ref
    /\ CursorRest

\* a call on the copy; one that raises is caught by the caller
OnCopy(op, r) ==
    /\ c2' = [c2 EXCEPT !.cur = r.c]
    /\ cursor' = Aliased(c2.shares, r.c, cursor)
    /\ call' = Returned("c2", op, r, c2.cur)
    /\ UNCHANGED ref
    /\ CursorRest

\* the node property seen as a call: it returns, and fills the cache
node_read(t, c) == [ok |-> TRUE, raised |-> FALSE, c |-> node_refresh(t, c)]

\* cursor.goto_first_child()
CallGotoFirstChild ==
    /\ mode = "cursor"
    /\ OnCursor("goto_first_child", goto_first_child(tree, cursor),
                FirstChildOf(tree, ref))

\* cursor.goto_next_sibling()
CallGotoNextSibling ==
    /\ mode = "cursor"
    /\ OnCursor("goto_next_sibling", goto_next_sibling(tree, cursor),
                NextSiblingOf(tree, ref))

\* cursor.goto_parent()
CallGotoParent ==
    /\ mode = "cursor"
    /\ OnCursor("goto_parent", goto_parent(tree, cursor), ParentOf(tree, ref))

\* cursor.node
ReadNode ==
    /\ mode = "cursor"
    /\ OnCursor("node", node_read(tree, cursor), ref)

\* c2 = cursor.copy()
TakeCopy ==
    /\ mode = "cursor"
    /\ c2' = copy(tree, cursor)
    /\ call' = [on |-> "c", op |-> "copy", ok |-> TRUE, raised |-> FALSE,
                before |-> cursor]
    /\ UNCHANGED <<cursor, ref>>
    /\ CursorRest

\* c2.goto_first_child()
CopyGotoFirstChild ==
    /\ mode = "cursor" /\ c2.made
    /\ OnCopy("goto_first_child", goto_first_child(tree, c2.cur))

\* c2.goto_next_sibling()
CopyGotoNextSibling ==
    /\ mode = "cursor" /\ c2.made
    /\ OnCopy("goto_next_sibling", goto_next_sibling(tree, c2.cur))

\* c2.goto_parent()
CopyGotoParent ==
    /\ mode = "cursor" /\ c2.made
    /\ OnCopy("goto_parent", goto_parent(tree, c2.cur))

\* c2.node
CopyReadNode ==
    /\ mode = "cursor" /\ c2.made
    /\ OnCopy("node", node_read(tree, c2.cur))

NextCursor ==
    \/ CallGotoFirstChild
    \/ CallGotoNextSibling
    \/ CallGotoParent
    \/ ReadNode
    \/ TakeCopy
    \/ CopyGotoFirstChild
    \/ CopyGotoNextSibling
    \/ CopyGotoParent
    \/ CopyReadNode

SpecCursor == InitCursor /\ [][NextCursor]_vars

----------------------------------------------------------------------------
(* collections.py: a NodeDict and a NodeCollection used by a caller, as in  *)
(* tests/test_collections.py: any call in any order                         *)

\* the nodes the caller has at hand: the root of a tree as two accesses of
\* it give it, a node of the same extent and another kind, and a child
Module1 == [obj |-> 1, start_byte |-> 0, end_byte |-> 9, type |-> "module"]

Module2 == [obj |-> 2, start_byte |-> 0, end_byte |-> 9, type |-> "module"]

Block == [obj |-> 3, start_byte |-> 0, end_byte |-> 9, type |-> "block"]

Identifier ==
    [obj |-> 4, start_byte |-> 0, end_byte |-> 4, type |-> "identifier"]

SampleNodes == {Module1, Module2, Block, Identifier}

\* the data stored in a NodeDict
Values == {"root", "new_root"}

\* no tree is walked
NoWalk ==
    /\ tree \in Trees(1)
    /\ should_traverse = None
    /\ cursor = tuple_cursor(tree)
    /\ gen = NewWalk(tree).gen
    /\ out = <<>>
    /\ traversal_filter = None
    /\ parent_filter = None
    /\ pstack = <<>>
    /\ lists = <<>>
    /\ hook = NoHook
    /\ bind = Idle
    /\ snaps = <<>>
    /\ navs = NoCalls
    /\ wh = NotWrapped
    /\ call = NoCall
    /\ ref = Root(tree)
    /\ c2 = NoCopy
    /\ req = "loop"

\* node_dict = NodeDict()
InitDict ==
    /\ NoWalk
    /\ mode = "NodeDict"
    /\ node_dict = NodeDict
    /\ node_collection = NodeCollection(<<>>)
    /\ given = <<>>
    /\ ops = <<>>
    /\ is_named = {}
    /\ wrap = 0
    /\ sexp_out = [pc |-> "none"]
    /\ fn_calls = <<>>

ContainerRest == UNCHANGED <<tree, should_traverse, cursor, gen, out, mode,
                             traversal_filter, parent_filter, pstack, lists,
                             hook, bind, snaps, navs, wh, ref, c2, req,
                             given, is_named, wrap, sexp_out, fn_calls>>

\* the caller's record of a call on a container: the method, its argument
\* and what it gave
Answer(on, op, node, r) ==
    [on |-> on, op |-> op, ok |-> ~r.raised, raised |-> r.raised,
     node |-> node, result |-> r]

\* the record of a call that writes
Wrote(op, node, value, raised) ==
    [op |-> op, node |-> node, value |-> value, raised |-> raised]

\* node_dict[node] = value
DictSetItem ==
    /\ mode = "NodeDict" /\ Len(ops) < MaxDictOps
    /\ \E node \in SampleNodes, value \in Values :
          /\ node_dict' = NodeDict_setitem(node_dict, node, value)
          /\ ops' = Append(ops, Wrote("setitem", node, value, FALSE))
          /\ call' = Answer("node_dict", "setitem", node, Returns("None"))
    /\ UNCHANGED node_collection
    /\ ContainerRest

\* del node_dict[node]
DictDelItem ==
    /\ mode = "NodeDict" /\ Len(ops) < MaxDictOps
    /\ \E node \in SampleNodes :
          LET r == NodeDict_delitem(node_dict, node) IN
          /\ node_dict' = r.mapping
          /\ ops' = Append(ops, Wrote("delitem", node, "None", r.raised))
          /\ call' = Answer("node_dict", "delitem", node,
                            IF r.raised THEN Raises("KeyError")
                            ELSE Returns("None"))
    /\ UNCHANGED node_collection
    /\ ContainerRest

\* node_dict[node]
DictGetItem ==
    /\ mode = "NodeDict"
    /\ \E node \in SampleNodes :
          call' = Answer("node_dict", "getitem", node,
                         NodeDict_getitem(node_dict, node))
    /\ UNCHANGED <<node_dict, node_collection, ops>>
    /\ ContainerRest

\* node in node_dict
DictContains ==
    /\ mode = "NodeDict"
    /\ \E node \in SampleNodes :
          call' = Answer("node_dict", "contains", node,
                         NodeDict_contains(node_dict, node))
    /\ UNCHANGED <<node_dict, node_collection, ops>>
    /\ ContainerRest

\* len(node_dict)
DictLen ==
    /\ mode = "NodeDict"
    /\ call' = Answer("node_dict", "len", "None", NodeDict_len(node_dict))
    /\ UNCHANGED <<node_dict, node_collection, ops>>
    /\ ContainerRest

NextDict ==
    \/ DictSetItem
    \/ DictDelItem
    \/ DictGetItem
    \/ DictContains
    \/ DictLen

SpecDict == InitDict /\ [][NextDict]_vars

RECURSIVE Tuples(_, _)
\* the sequences of at most n elements of S
Tuples(S, n) ==
    IF n = 0 THEN {<<>>}
    ELSE LET shorter == Tuples(S, n - 1) IN
         shorter \cup { Append(q, x) : q \in shorter, x \in S }

\* node_collection = NodeCollection(given)
InitCollection ==
    /\ NoWalk
    /\ mode = "NodeCollection"
    /\ given \in Tuples(SampleNodes, MaxGiven)
    /\ node_collection = NodeCollection(given)
    /\ node_dict = NodeDict
    /\ ops = <<>>
    /\ is_named = {}
    /\ wrap = 0
    /\ sexp_out = [pc |-> "none"]
    /\ fn_calls = <<>>

\* node_collection.add(node)
CollectionAdd ==
    /\ mode = "NodeCollection" /\ Len(ops) < MaxCollectionOps
    /\ \E node \in SampleNodes :
          /\ node_collection' = NodeCollection_add(node_collection, node)
          /\ ops' = Append(ops, Wrote("add", node, "None", FALSE))
          /\ call' = Answer("node_collection", "add", node, Returns("None"))
    /\ UNCHANGED node_dict
    /\ ContainerRest

\* node_collection.remove(node)
CollectionRemove ==
    /\ mode = "NodeCollection" /\ Len(ops) < MaxCollectionOps
    /\ \E node \in SampleNodes :
          LET r == NodeCollection_remove(node_collection, node) IN
          /\ node_collection' = r.coll
          /\ ops' = Append(ops, Wrote("remove", node, "None", r.raised))
          /\ call' = Answer("node_collection", "remove", node,
                            IF r.raised THEN Raises("KeyError")
                            ELSE Returns("None"))
    /\ UNCHANGED node_dict
    /\ ContainerRest

\* node_collection[node]
CollectionGetItem ==
    /\ mode = "NodeCollection"
    /\ \E node \in SampleNodes :
          call' = Answer("node_collection", "getitem", node,
                         NodeCollection_getitem(node_collection, node))
    /\ UNCHANGED <<node_dict, node_collection, ops>>
    /\ ContainerRest

\* node in node_collection
CollectionContains ==
    /\ mode = "NodeCollection"
    /\ \E node \in SampleNodes :
          call' = Answer("node_collection", "contains", node,
                         NodeCollection_contains(node_collection, node))
    /\ UNCHANGED <<node_dict, node_collection, ops>>
    /\ ContainerRest

\* len(node_collection)
CollectionLen ==
    /\ mode = "NodeCollection"
    /\ call' = Answer("node_collection", "len", "None",
                      NodeCollection_len(node_collection))
    /\ UNCHANGED <<node_dict, node_collection, ops>>
    /\ ContainerRest

\* list(node_collection)
CollectionIter ==
    /\ mode = "NodeCollection"
    /\ call' = Answer("node_collection", "iter", "None",
                      NodeCollection_iter(node_collection))
    /\ UNCHANGED <<node_dict, node_collection, ops>>
    /\ ContainerRest

NextCollection ==
    \/ CollectionAdd
    \/ CollectionRemove
    \/ CollectionGetItem
    \/ CollectionContains
    \/ CollectionLen
    \/ CollectionIter

SpecCollection == InitCollection /\ [][NextCollection]_vars

----------------------------------------------------------------------------
(* core.py: sexp(tree, wrap, traversal_filter=...) of a tree in which some  *)
(* leaves are anonymous tokens                                              *)

\* the values of wrap: the default, and one that short lines exceed
Wraps == {50, 3}

\* anonymous nodes have no children
NamedSets(t) ==
    { S \in SUBSET t.nodes : \A n \in t.nodes \ S : is_leaf(t, n) }

InitSexp ==
    /\ tree \in Trees(MaxSexpNodes)
    /\ traversal_filter \in Filters(tree)
    /\ is_named \in NamedSets(tree)
    /\ wrap \in Wraps
    /\ sexp_out = [pc |-> "none"]
    /\ fn_calls = <<>>
    /\ mode = "sexp"
    /\ should_traverse = None
    /\ cursor = tuple_cursor(tree)
    /\ gen = NewWalk(tree).gen
    /\ out = <<>>
    /\ parent_filter = None
    /\ pstack = <<>>
    /\ lists = <<>>
    /\ hook = NoHook
    /\ bind = Idle
    /\ snaps = <<>>
    /\ navs = NoCalls
    /\ wh = NotWrapped
    /\ call = NoCall
    /\ ref = Root(tree)
    /\ c2 = NoCopy
    /\ req = "loop"
    /\ node_dict = NodeDict
    /\ node_collection = NodeCollection(<<>>)
    /\ given = <<>>
    /\ ops = <<>>

\* sexp(tree, wrap, traversal_filter=traversal_filter)
CallSexp ==
    /\ mode = "sexp" /\ sexp_out.pc = "none"
    /\ sexp_out' = sexp(tree, is_named, wrap, traversal_filter)
    /\ UNCHANGED <<tree, should_traverse, cursor, gen, out, mode,
                   traversal_filter, parent_filter, pstack, lists, hook,
                   bind, snaps, navs, wh, call, ref, c2, req, node_dict,
                   node_collection, given, ops, is_named, wrap, fn_calls>>

NextSexp == CallSexp

SpecSexp == InitSexp /\ [][NextSexp]_vars

----------------------------------------------------------------------------
(* What the walk is compared with: the tree itself *)

RECURSIVE Preorder(_, _)
\* parent before children, children left to right
Preorder(t, n) ==
    LET kids == Children(t, n)
        F(c) == Preorder(t, c)
    IN <<n>> \o Concat(F, kids, 1)

\* st holds at n and at every ancestor of n
Visible(t, st, n) ==
    st.given => \A a \in t.nodes : IsAncOrSelf(t.par, a, n) => a \in st.holds

VisiblePreorder(t, st) ==
    LET V(n) == Visible(t, st, n) IN SelectSeq(Preorder(t, Root(t)), V)

\* t without the subtree rooted at p (p included)
DeleteSubtree(t, p) ==
    LET keep == t.nodes \ Subtree(t, p)
    IN [nodes |-> keep, par |-> [n \in keep |-> t.par[n]]]

IsLastChild(t, p) ==
    /\ t.par[p] # 0
    /\ Last(Children(t, t.par[p])) = p

\* the positions of s at which node n arrives / is left
ArrivalsOf(s, n) == { i \in 1..Len(s) : s[i][1] = n /\ IsArrival(s[i]) }

UpsOf(s, n) == { i \in 1..Len(s) : s[i][1] = n /\ s[i][2] = "UP" }

StepsOf(s, n) == { i \in 1..Len(s) : s[i][1] = n }

Emitted(s) == { s[i][1] : i \in 1..Len(s) }

RECURSIVE OpenAfter(_, _, _, _)
\* Reads s as a bracket sequence over t: an arrival opens its node, which must
\* be the root (first of all) or a child of the innermost open node; an UP
\* closes the innermost open node, which must be its own.  Gives the open
\* nodes, outermost first, or <<0>> when s is no such sequence.
OpenAfter(t, s, i, open) ==
    IF i > Len(s) THEN open
    ELSE LET n == s[i][1] IN
         IF IsArrival(s[i])
         THEN IF \/ (open = <<>> /\ i = 1 /\ n = Root(t))
                 \/ (open # <<>> /\ t.par[n] = Last(open))
              THEN OpenAfter(t, s, i + 1, Append(open, n))
              ELSE <<0>>
         ELSE IF open # <<>> /\ Last(open) = n
              THEN OpenAfter(t, s, i + 1, Front(open))
              ELSE <<0>>

WellNested(t, s) == OpenAfter(t, s, 1, <<>>) # <<0>>

Done == mode = "traverse" /\ gen.pc = "done"

AtYield == gen.pc \in {"y59", "y71", "y83"}

----------------------------------------------------------------------------
(* Claims about traverse *)

\* C1: without a predicate, a finished walk has one arrival (DOWN or RIGHT)
\* step per node of the tree, and the arrivals, which are what iternodes
\* yields, are the preorder of the tree.
C1_PreorderOnce ==
    (Done /\ ~should_traverse.given) =>
        /\ \A n \in tree.nodes : Cardinality(ArrivalsOf(out, n)) = 1
        /\ ArrivalNodes(out, 1) = Preorder(tree, Root(tree))

C1_Witness ==
    /\ Done /\ ~should_traverse.given
    /\ Cardinality(tree.nodes) = 5
    /\ \E n \in tree.nodes : child_count(tree, n) >= 2 /\ Depth(tree, n) >= 2
    /\ \E n \in tree.nodes : Depth(tree, n) >= 3

\* The bracket structure of the stream, for any predicate: every emitted
\* node has one arrival and one UP, nested as the tree is; a leaf's UP comes
\* right after its arrival; at each yield the cursor is on the step's node.
BracketStructure ==
    /\ WellNested(tree, out)
    /\ AtYield => node_at_path(tree, cursor.path) = Last(out)[1]
    /\ \A i \in 1..(Len(out) - 1) :
          (IsArrival(out[i]) /\ is_leaf(tree, out[i][1]))
              => out[i + 1] = <<out[i][1], "UP">>
    /\ Done => \A n \in Emitted(out) :
                  /\ Cardinality(ArrivalsOf(out, n)) = 1
                  /\ Cardinality(UpsOf(out, n)) = 1
    /\ Done => OpenAfter(tree, out, 1, <<>>) = <<>>

\* C2 (as claimed): for any tree and any predicate the stream is well
\* nested, starts with (root, DOWN) and ends with (root, UP).
C2_Original ==
    /\ BracketStructure
    /\ Done => /\ out # <<>>
               /\ out[1] = <<Root(tree), "DOWN">>
               /\ Last(out) = <<Root(tree), "UP">>

\* C2 (amended): the stream is well nested for any predicate; it starts with
\* (root, DOWN) and ends with (root, UP) when the predicate holds at the root
\* (or there is none), and is empty when the predicate fails at the root.
C2_WellNested ==
    /\ BracketStructure
    /\ (Done /\ Visible(tree, should_traverse, Root(tree))) =>
          /\ out # <<>>
          /\ out[1] = <<Root(tree), "DOWN">>
          /\ Last(out) = <<Root(tree), "UP">>
    /\ (Done /\ ~Visible(tree, should_traverse, Root(tree))) => out = <<>>

C2_Witness ==
    /\ Done /\ should_traverse.given
    /\ Len(out) >= 6
    /\ \E n \in tree.nodes : ~Visible(tree, should_traverse, n)
    /\ \E n \in Emitted(out) : child_count(tree, n) >= 2

\* The nodes at which the predicate is evaluated and fails.
Pruned(t, st) ==
    { n \in t.nodes : /\ st.given /\ n \notin st.holds
                      /\ \A a \in t.nodes : IsProperAncestor(t, a, n) => a \in st.holds }

\* C4 (as claimed): a node at which should_traverse is false is still emitted
\* once (arrival and the leaf's UP); only its descendants are skipped.
C4_Original ==
    Done => \A n \in Pruned(tree, should_traverse) :
               /\ Cardinality(ArrivalsOf(out, n)) = 1
               /\ Cardinality(UpsOf(out, n)) = 1
               /\ \A d \in Subtree(tree, n) \ {n} : StepsOf(out, d) = {}

\* C4 (amended): a node at which should_traverse is false gets no step at
\* all, and neither does any of its descendants; every other node of the
\* tree is still emitted.
C4_PrunedNotEmitted ==
    Done => /\ \A n \in Pruned(tree, should_traverse) :
                 \A d \in Subtree(tree, n) : StepsOf(out, d) = {}
            /\ \A n \in tree.nodes :
                 Visible(tree, should_traverse, n) => n \in Emitted(out)

C4_Witness ==
    /\ Done
    /\ \E n \in Pruned(tree, should_traverse) :
          /\ n # Root(tree)
          /\ child_count(tree, n) >= 1
          /\ \E m \in tree.nodes :
                /\ m > n /\ tree.par[m] = tree.par[n]
                /\ m \in Emitted(out)

\* C5: with a predicate that is false only at p, the last child of its
\* parent, the stream is the one traverse yields without a predicate on the
\* tree from which p's subtree has been deleted.
C5_LastSiblingAsDeleted ==
    Done => \A p \in tree.nodes :
               (/\ should_traverse = Predicate(tree.nodes \ {p})
                /\ IsLastChild(tree, p))
                   => out = traverse(DeleteSubtree(tree, p), None)

C5_Witness ==
    /\ Done
    /\ \E p \in tree.nodes :
          /\ should_traverse = Predicate(tree.nodes \ {p})
          /\ IsLastChild(tree, p)
          /\ child_count(tree, p) >= 1
          /\ Depth(tree, p) >= 3
    /\ Len(out) >= 4

\* an earlier sibling of n has been emitted
EarlierSiblingEmitted(t, s, n) ==
    \E m \in t.nodes : m < n /\ t.par[m] = t.par[n] /\ m \in Emitted(s)

\* C6: an arrival is tagged DOWN exactly when the node is the root or no
\* earlier sibling of it was emitted, and RIGHT exactly when one was.
C6_TagsOfPrunedTree ==
    Done => \A i \in 1..Len(out) :
               IsArrival(out[i]) =>
                  (out[i][2] = "RIGHT"
                      <=> EarlierSiblingEmitted(tree, out, out[i][1]))

----------------------------------------------------------------------------
(* Claims about the iterators of iter.py *)

\* C3: iternodes(cursor, f) yields, in preorder, exactly the nodes at which
\* f holds and at all of whose ancestors f holds.
C3_IternodesFiltered ==
    Len(lists) >= 1 => lists[1] = VisiblePreorder(tree, traversal_filter)

C3_Witness ==
    /\ Len(lists) >= 1
    /\ \E n \in Pruned(tree, traversal_filter) :
          /\ n # Root(tree)
          /\ child_count(tree, n) >= 1
          /\ \E i \in 1..Len(lists[1]) :
                lists[1][i] > n /\ tree.par[lists[1][i]] = tree.par[n]

\* C7: for any tree, traversal filter and parent_filter, iternodes,
\* iternodes_with_parent and iternodes_with_edges yield the same nodes in the
\* same order.
C7_SameNodeOrder ==
    /\ Len(lists) >= 2 => lists[2] = lists[1]
    /\ Len(lists) >= 3 => lists[3] = lists[1]

C7_Witness ==
    /\ mode = "compared"
    /\ Len(lists[1]) >= 3
    /\ Pruned(tree, traversal_filter) # {}
    /\ \E n \in tree.nodes : child_count(tree, n) >= 2

----------------------------------------------------------------------------
(* Claims about the hooks *)

RECURSIVE Seen(_, _, _), Produced(_, _, _)
\* what node n is to see: the value combine returned at the nearest proper
\* ancestor at which it returned one, NO_CONTEXT when there is none
Seen(t, fn, n) ==
    IF t.par[n] = 0 THEN NO_CONTEXT
    ELSE LET v == Produced(t, fn, t.par[n])
         IN IF v # NO_CONTEXT THEN v ELSE Seen(t, fn, t.par[n])

\* the value combine returns at n when it is handed what n is to see
Produced(t, fn, n) == Apply(fn, Seen(t, fn, n), n)

\* C8: the snapshot delivered with the arrival of a node is the value combine
\* returned at its nearest proper ancestor that returned one, NO_CONTEXT when
\* there is none; with the reducer this is the accumulation over the
\* ancestor chain, root first.
C8_NearestAncestorContext ==
    hook.kind = "BroadcastL" =>
        \A i \in 1..Len(snaps) :
            IsArrival(snaps[i][2]) =>
                snaps[i][1] = Seen(tree, hook.fn, snaps[i][2][1])

\* C9: at every step whose node lies outside the subtree rooted at n, the
\* entry pushed at n is not on the context stack.  (With a "map" combine the
\* value of an entry is the node that pushed it.)
C9_NoLeak ==
    (hook.kind = "BroadcastL" /\ hook.fn.kind = "map" /\ bind.pc = "exit") =>
        \A k \in 1..Len(hook.context_stack) :
            Last(out)[1] \in Subtree(tree, hook.context_stack[k][2])

\* C10: with a Height hook the snapshot of every step is the depth of the
\* step's node (root = 1).
C10_HeightIsDepth ==
    hook.kind = "Height" =>
        \A i \in 1..Len(snaps) :
            snaps[i][1] = Depth(tree, snaps[i][2][1])

----------------------------------------------------------------------------
(* Claims about with_height *)

RECURSIVE HeightFromTags(_, _)
\* DOWN and RIGHT steps among the first i steps of s, minus the UP steps
\* among the first i - 1
HeightFromTags(s, i) ==
    IF i = 0 THEN 0
    ELSE HeightFromTags(s, i - 1)
         + (IF IsArrival(s[i]) THEN 1 ELSE 0)
         - (IF i > 1 /\ s[i - 1][2] = "UP" THEN 1 ELSE 0)

\* the whole stream has gone through with_height, which waits at its for loop
HeightDone == mode = "with_height" /\ gen.pc = "done" /\ wh.pc = "l103"

\* C11: for any tree and predicate, at every step of traverse the number of
\* DOWN and RIGHT steps up to and including it minus the number of UP steps
\* strictly before it is the depth of the step's node (root = 1); with_height
\* yields that value with the step, unchanged and in order, and its running
\* height is 0 once the stream is exhausted.
C11_HeightFromTagsExact ==
    mode = "with_height" =>
        /\ \A i \in 1..Len(out) :
               HeightFromTags(out, i) = Depth(tree, out[i][1])
        /\ \A i \in 1..Len(snaps) :
               /\ snaps[i][2] = out[i]
               /\ snaps[i][1] = Depth(tree, out[i][1])
        /\ (wh.pc = "l103" => Len(snaps) = Len(out))
        /\ (HeightDone => wh.height = 0)

\* with_height has finished a walk with a pruned node, a RIGHT arrival and a
\* node at depth 3
C11_Witness ==
    /\ HeightDone
    /\ Pruned(tree, should_traverse) # {}
    /\ \E i \in 1..Len(snaps) : snaps[i][2][2] = "RIGHT"
    /\ \E i \in 1..Len(snaps) : snaps[i][1] = 3

----------------------------------------------------------------------------
(* Claims about bind and merged hooks *)

\* the hook as it was constructed, before bind
Fresh(h) ==
    LET fresh(x) == IF x.kind = "Height" THEN Height ELSE BroadcastL(x.fn)
    IN IF h.kind = "MergedHooks"
       THEN MergedHooks([k \in 1..Len(h.hooks) |-> fresh(h.hooks[k])])
       ELSE fresh(h)

RECURSIVE BoundAlone(_, _, _)
\* hook h bound on its own to the first i steps of stream s, each step taken
\* through enter, snapshot, exit in turn with the cursor on the step's node:
\* the hook afterwards and the (snapshot, step) pairs yielded
BoundAlone(h, s, i) ==
    IF i = 0 THEN [hook |-> h, snaps |-> <<>>]
    ELSE LET p == BoundAlone(h, s, i - 1)
             e == enter(p.hook, s[i])
         IN [hook  |-> exit(e, s[i], s[i][1]),
             snaps |-> Append(p.snaps, <<snapshot(e), s[i]>>)]

\* the steps of the stream that bind has taken to their end
Finished == IF bind.pc = "pull" THEN Len(out) ELSE Len(out) - 1

\* C12: bound to the same stream, (A | B) yields at every step the pair of
\* the snapshots A and B yield when each is bound alone, and each of the two
\* hooks is in the state it has alone after the same steps: each has been
\* entered once and exited once per step.
C12_MergedAsAlone ==
    hook.kind = "MergedHooks" =>
        /\ \A i \in 1..Len(snaps) :
               snaps[i][1] =
                   [k \in 1..2 |->
                       BoundAlone(Fresh(hook.hooks[k]), out, i).snaps[i][1]]
        /\ \A k \in 1..2 :
               LET before == BoundAlone(Fresh(hook.hooks[k]), out, Finished).hook
               IN hook.hooks[k] =
                      CASE bind.pc = "pull"  -> before
                        [] bind.pc = "enter" -> before
                        [] OTHER             -> enter(before, Last(out))

\* a merged Height and BroadcastL have been through a whole walk in which,
\* at some step, both snapshots are set and differ
C12_Witness ==
    /\ hook.kind = "MergedHooks"
    /\ mode = "hook" /\ gen.pc = "done" /\ bind.pc = "pull"
    /\ \E i \in 1..Len(snaps) :
           /\ snaps[i][1][1] # snaps[i][1][2]
           /\ snaps[i][1][1] # 0
           /\ snaps[i][1][2] # NO_CONTEXT

\* C13: bind yields one (snapshot, step) pair per step of the stream, in
\* order and with the step unchanged; each step goes through enter, snapshot
\* and exit in that order, so the pairs and the hook are those of BoundAlone;
\* and while a step has not been exited the traversal has not moved on: the
\* generator is suspended at the yield of that step, the step is the last one
\* of the stream and the cursor is on its node.
C13_BindStepByStep ==
    (mode = "hook" /\ hook.kind # "MergedHooks") =>
        /\ Len(snaps) = (IF bind.pc \in {"enter", "snap"}
                         THEN Len(out) - 1 ELSE Len(out))
        /\ \A i \in 1..Len(snaps) : snaps[i][2] = out[i]
        /\ snaps = BoundAlone(Fresh(hook), out, Len(snaps)).snaps
        /\ hook = LET before == BoundAlone(Fresh(hook), out, Finished).hook
                  IN CASE bind.pc \in {"pull", "enter"} -> before
                       [] OTHER -> enter(before, Last(out))
        /\ (bind.pc # "pull" =>
               /\ AtYield
               /\ Finished = Len(out) - 1
               /\ node_at_path(tree, cursor.path) = Last(out)[1])

\* bind has taken a whole walk of at least three nodes through a BroadcastL
\* whose combine returned a value somewhere
C13_Witness ==
    /\ mode = "hook" /\ hook.kind = "BroadcastL"
    /\ gen.pc = "done" /\ bind.pc = "pull"
    /\ Len(snaps) >= 6
    /\ \E i \in 1..Len(snaps) : snaps[i][1] # NO_CONTEXT

----------------------------------------------------------------------------
(* Claims about GenericCursor *)

Navigation == {"goto_first_child", "goto_next_sibling", "goto_parent"}

\* C14: on a tuple_cursor, after any sequence of navigation calls, the last
\* call raised nothing; goto_first_child returned false exactly at a leaf,
\* goto_next_sibling exactly at the root or a last child, goto_parent exactly
\* at the root; a call that returned false left the path and the node as
\* they were, and one that returned true moved the cursor to another node.
C14_NavigationResults ==
    (mode = "cursor" /\ call.op \in Navigation /\ call.on = "c") =>
        LET at == node_value(tree, call.before) IN
        /\ ~call.raised
        /\ (call.op = "goto_first_child" =>
               (~call.ok <=> Children(tree, at) = <<>>))
        /\ (call.op = "goto_next_sibling" =>
               (~call.ok <=> (at = Root(tree) \/ IsLastChild(tree, at))))
        /\ (call.op = "goto_parent" => (~call.ok <=> at = Root(tree)))
        /\ (~call.ok => /\ cursor.path = call.before.path
                        /\ node_value(tree, cursor) = at)
        /\ (call.ok => /\ cursor.path # call.before.path
                       /\ node_value(tree, cursor) # at)

\* each method has failed where the claim says it fails and succeeded
\* elsewhere: here goto_next_sibling has just failed at a last child that is
\* not the root, two levels down
C14_Witness ==
    /\ mode = "cursor" /\ call.on = "c"
    /\ call.op = "goto_next_sibling" /\ ~call.ok
    /\ Len(cursor.path) = 2
    /\ Last(cursor.path) > 0

\* C15: after any sequence of navigation calls on a tuple_cursor started at
\* the root, cursor.node is the node reached by applying the successful moves
\* to the tree itself (first child, next sibling under the same parent,
\* parent), also right after goto_parent, when it comes from the cache.
C15_NodeFollowsTree ==
    mode = "cursor" => node_value(tree, cursor) = ref

\* goto_parent has just returned true from a node that was not a first
\* child, and the node is served from the cache
C15_Witness ==
    /\ mode = "cursor" /\ call.on = "c"
    /\ call.op = "goto_parent" /\ call.ok
    /\ Last(call.before.path) > 0
    /\ ~cursor.node_dirty
    /\ cursor.path # <<>>

\* where a cursor is and what it shows
Position(c) == <<c.path, node_value(tree, c)>>

\* C16: right after c2 = c.copy(), taken at any position, c2 is where c is
\* and c2.node is c.node; from then on no navigation call or read on c
\* changes c2's position or c2.node, and none on c2 (returning or raising)
\* changes c's.
C16_CopyIndependent ==
    [][mode = "cursor" =>
         /\ (call'.op = "copy" => Position(c2'.cur) = Position(cursor'))
         /\ ((c2.made /\ call'.on = "c" /\ call'.op # "copy") =>
                Position(c2'.cur) = Position(c2.cur))
         /\ (call'.on = "c2" => Position(cursor') = Position(cursor))]_vars

\* after a copy taken below the root, the original has moved on and the copy
\* has been navigated too: the two cursors are on different nodes
C16_Witness ==
    /\ mode = "cursor" /\ c2.made
    /\ call.on = "c2" /\ call.op = "goto_first_child" /\ call.ok
    /\ Len(cursor.path) = 1 /\ Last(cursor.path) > 0
    /\ Len(c2.cur.path) = 2 /\ c2.cur.path[1] = 0

----------------------------------------------------------------------------
(* Claims about the run of traverse as a whole *)

\* navigation calls made so far
NavCalls == navs.goto_first_child + navs.goto_next_sibling + navs.goto_parent

\* What the walk can still do: two units per navigation call left of the 3N
\* a walk can make, one more while the node under the cursor has not been
\* looked at.
Rank ==
    2 * (3 * Cardinality(tree.nodes) - NavCalls)
        + (IF gen.pc = "start" THEN 1 ELSE 0)

\* The guards of the actions of Next: the generator, resumed, stands at a
\* point of the loop from which its code goes on.
CanStep ==
    Running /\ gen.pc \in {"start", "y59", "y71", "l73", "l79", "y83"}

\* C17: for every tree and every predicate that returns normally, traverse
\* emits finitely many steps and then finishes: resumed, an unfinished
\* generator always has a step to take, every step lowers Rank, which is never
\* negative, and at most two steps per node are emitted; and it finishes only
\* from the retrace loop, on a goto_parent that fails, with the cursor back on
\* the node it started from.
C17_Terminates ==
    /\ [](/\ Rank >= 0
          /\ Len(out) <= 2 * Cardinality(tree.nodes)
          /\ (gen.pc = "done" \/ CanStep))
    /\ [][/\ Rank' < Rank
          /\ (gen'.pc = "done" =>
                 /\ gen.pc = "l79"
                 /\ ~goto_parent(tree, cursor).ok
                 /\ navs'.goto_parent = navs.goto_parent + 1
                 /\ cursor'.path = <<>>
                 /\ node_value(tree, cursor') = Root(tree))]_vars

\* a walk that pruned a node below the root and retraced through at least
\* two levels has finished
C17_Witness ==
    /\ mode = "traverse" /\ gen.pc = "done"
    /\ navs.goto_parent >= 3
    /\ \E n \in Pruned(tree, should_traverse) : n # Root(tree)

\* the nodes of t that have children
NonLeaves(t) == { n \in t.nodes : Children(t, n) # <<>> }

\* C18: in a traversal without a predicate over a tree of N nodes,
\* goto_first_child is called once after the arrival of each node and never
\* otherwise, so N times in the complete walk; goto_next_sibling is called N
\* times and goto_parent (number of non-leaf nodes + 1) times; the calls
\* never exceed these numbers on the way, and their total is at most 3N.
C18_NavigationCalls ==
    (mode = "traverse" /\ ~should_traverse.given) =>
        LET N == Cardinality(tree.nodes) IN
        /\ navs.goto_first_child =
               Cardinality({ i \in 1..Len(out) : IsArrival(out[i]) })
                   - (IF gen.pc = "y59" THEN 1 ELSE 0)
        /\ navs.goto_first_child <= N
        /\ navs.goto_next_sibling <= N
        /\ navs.goto_parent <= Cardinality(NonLeaves(tree)) + 1
        /\ NavCalls <= 3 * N
        /\ (gen.pc = "done" =>
               /\ navs.goto_first_child = N
               /\ navs.goto_next_sibling = N
               /\ navs.goto_parent = Cardinality(NonLeaves(tree)) + 1)

\* a complete walk without a predicate over a tree with two inner nodes and
\* three leaves
C18_Witness ==
    /\ mode = "traverse" /\ ~should_traverse.given /\ gen.pc = "done"
    /\ Cardinality(NonLeaves(tree)) = 2
    /\ Cardinality(tree.nodes) = 5
    /\ NavCalls = 13

----------------------------------------------------------------------------
(* Claims about iternodes_with_parent *)

RECURSIVE NearestAncestor(_, _, _)
\* the nearest proper ancestor of n at which filter f holds, 0 (None) when
\* there is none
NearestAncestor(t, f, n) ==
    IF t.par[n] = 0 THEN 0
    ELSE IF Holds(f, t.par[n]) THEN t.par[n]
    ELSE NearestAncestor(t, f, t.par[n])

\* C19: for any tree, traversal filter and parent_filter, every pair
\* iternodes_with_parent yields holds a node and its nearest proper ancestor
\* satisfying parent_filter, None when there is none (so None for the root);
\* and the nodes yielded are all the nodes the traversal filter lets through,
\* in preorder, whether or not they satisfy parent_filter.
C19_NearestFilteredParent ==
    mode = "iternodes_with_parent" =>
        /\ \A i \in 1..Len(out) :
               out[i][2] = NearestAncestor(tree, parent_filter, out[i][1])
        /\ (gen.pc = "done" =>
               Nodes(out, 1) = VisiblePreorder(tree, traversal_filter))

\* a finished iternodes_with_parent that yielded a node failing
\* parent_filter, a node paired with its grandparent, and a node below the
\* root paired with None
C19_Witness ==
    /\ mode = "iternodes_with_parent" /\ gen.pc = "done"
    /\ \E i \in 1..Len(out) : ~Holds(parent_filter, out[i][1])
    /\ \E i \in 1..Len(out) :
           /\ out[i][2] # 0
           /\ out[i][2] # tree.par[out[i][1]]
    /\ \E i \in 1..Len(out) :
           /\ out[i][2] = 0
           /\ out[i][1] # Root(tree)

----------------------------------------------------------------------------
(* Claims about a predicate that raises *)

\* s is the beginning of u
IsPrefix(s, u) == Len(s) <= Len(u) /\ \A i \in 1..Len(s) : s[i] = u[i]

\* the node under the cursor
Under(c) == node_at_path(tree, c.path)

\* the predicates that return what should_traverse returns wherever it
\* returns, and return something where it raises
NonFailing ==
    { Predicate(should_traverse.holds \cup X) : X \in SUBSET should_traverse.raises }

\* C20: the predicate's exception ends the generator in the very resumption
\* that evaluated it, at the top of the loop, with nothing emitted for the
\* node; a generator that went on past a node did not evaluate a raising
\* predicate there; the steps delivered before the exception are a prefix of
\* every non-failing run, namely the steps up to the arrival at n of a run
\* whose predicate accepts n; the cursor is left on n; and afterwards nothing
\* changes: no step, no navigation call.
C20_PredicateRaises ==
    /\ [](/\ (gen.pc \in {"y59", "l73"} => Under(cursor) \notin should_traverse.raises)
          /\ (gen.pc = "raised" =>
                 /\ Under(cursor) \in should_traverse.raises
                 /\ \A st \in NonFailing : IsPrefix(out, traverse(tree, st))
                 /\ \E st \in NonFailing :
                        LET u == traverse(tree, st) IN
                        /\ Len(u) > Len(out)
                        /\ u[Len(out) + 1][1] = Under(cursor)
                        /\ IsArrival(u[Len(out) + 1])))
    /\ [][/\ gen.pc # "raised"
          /\ (gen'.pc = "raised" =>
                 /\ gen.pc = "start"
                 /\ out' = out
                 /\ navs' = navs
                 /\ cursor'.path = cursor.path)]_vars

\* the predicate has raised at a node below the root after steps were
\* delivered and a sibling was pruned, in a tree with nodes still unvisited
C20_Witness ==
    /\ mode = "traverse" /\ gen.pc = "raised"
    /\ Len(cursor.path) >= 1
    /\ Len(out) >= 3
    /\ \E n \in tree.nodes :
           /\ n \notin should_traverse.holds \cup should_traverse.raises
           /\ n < Under(cursor)
           /\ tree.par[n] # 0
    /\ \E n \in tree.nodes : n > Under(cursor)

----------------------------------------------------------------------------
(* Claims about the generator and its consumer *)

\* C21: traverse navigates only inside a request: the cursor is moved and a
\* navigation method is called only while a next() is being served, so not
\* before the first request and not between the delivery of a step and the
\* next request; and whenever no request is being served, in particular once
\* the consumer has stopped, the cursor is on the node of the step delivered
\* last.
C21_PullDriven ==
    /\ [](req \in {"idle", "stopped"} =>
             /\ (out = <<>> /\ gen.pc # "done" => navs = NoCalls /\ cursor.path = <<>>)
             /\ (out # <<>> => Under(cursor) = Last(out)[1]))
    /\ [][(navs' # navs \/ cursor'.path # cursor.path \/ out' # out) =>
             req = "requested"]_vars

\* the consumer has stopped after a step on a node below the root, with
\* nodes of the tree not yet visited and navigation calls made so far
C21_Witness ==
    /\ req = "stopped"
    /\ Len(out) >= 2
    /\ gen.pc = "y59"
    /\ Len(cursor.path) >= 1
    /\ NavCalls >= 2
    /\ \E n \in tree.nodes : n > Under(cursor)

----------------------------------------------------------------------------
(* Claims about reading GenericCursor.node *)

\* what a caller can see of a cursor: its two lists and the value of .node
Seeing(c) ==
    [path |-> c.path, parent_stack |-> c.parent_stack,
     value |-> node_value(tree, c)]

NavigationOf(op, c) ==
    CASE op = "goto_first_child"  -> goto_first_child(tree, c)
      [] op = "goto_next_sibling" -> goto_next_sibling(tree, c)
      [] op = "goto_parent"       -> goto_parent(tree, c)

RECURSIVE SameFromNowOn(_, _, _)
\* the cursors a and b look the same, and so do the results of every
\* sequence of up to k navigation calls made on each of them (nothing is
\* left to compare once the two are equal in every attribute)
SameFromNowOn(a, b, k) ==
    /\ Seeing(a) = Seeing(b)
    /\ (k > 0 /\ a # b) =>
         \A op \in {"goto_first_child", "goto_next_sibling", "goto_parent"} :
            LET ra == NavigationOf(op, a)
                rb == NavigationOf(op, b)
            IN  /\ ra.ok = rb.ok
                /\ ra.raised = rb.raised
                /\ SameFromNowOn(ra.c, rb.c, k - 1)

\* the read of .node that takes the cursor `before` to the cursor `after`
ReadKeeps(before, after) ==
    /\ get_value(after.node) = node_value(tree, before)
    /\ after.path = before.path
    /\ after.parent_stack = before.parent_stack
    /\ SameFromNowOn(before, after, MaxLater)

\* C22: a read of .node, on the cursor or on its copy, leaves the path and
\* the ancestor stack as they were, returns the value that a read made in
\* its place would return (so a read that follows a read returns the same
\* value), and every sequence of navigation calls made after it returns and
\* raises what it would have without the read, and leaves the same path,
\* ancestor stack and node value.
C22_ReadsChangeNothing ==
    [][/\ (call'.op = "node" /\ call'.on = "c") =>
             /\ ReadKeeps(cursor, cursor')
             /\ (call.op = "node" /\ call.on = "c" =>
                    get_value(cursor'.node) = get_value(cursor.node))
       /\ (call'.op = "node" /\ call'.on = "c2") =>
             /\ ReadKeeps(c2.cur, c2'.cur)
             /\ (call.op = "node" /\ call.on = "c2" =>
                    get_value(c2'.cur.node) = get_value(c2.cur.node))]_vars

\* .node has just been read on a cursor two levels down whose cache was
\* stale after a navigation call, and the value is the node the cursor is on
C22_Witness ==
    /\ call.op = "node" /\ call.on = "c"
    /\ call.before.node_dirty
    /\ ~cursor.node_dirty
    /\ Len(cursor.path) >= 2
    /\ get_value(cursor.node) = ref
    /\ call.before.node # cursor.node

----------------------------------------------------------------------------
(* Claims about NodeDict and NodeCollection *)

Absent == [present |-> FALSE, value |-> "None"]

Present(v) == [present |-> TRUE, value |-> v]

RECURSIVE LatestFor(_, _, _)
\* what the writes log[1..i] leave under the structural key: the value set
\* most recently, or nothing when it was never set or was deleted since
LatestFor(log, key, i) ==
    IF i = 0 THEN Absent
    ELSE IF hash_node(log[i].node) = key /\ ~log[i].raised
         THEN IF log[i].op = "setitem" THEN Present(log[i].value) ELSE Absent
         ELSE LatestFor(log, key, i - 1)

Keys == { hash_node(node) : node \in SampleNodes }

\* C23: after any sequence of set and delete calls, for every node (whichever
\* object stands for it) lookup returns the value set most recently under the
\* node's structural key and raises KeyError when the key was never set or
\* was deleted since, membership is true exactly for the keys set and not
\* deleted since, and len is the number of those keys; the getitem, contains
\* and len calls the caller makes give just that.
C23_ActsAsMap ==
    /\ \A node \in SampleNodes :
          LET want == LatestFor(ops, hash_node(node), Len(ops))
              got  == NodeDict_getitem(node_dict, node)
          IN  /\ got.raised = ~want.present
              /\ want.present => got.value = want.value
              /\ ~want.present => got.error = "KeyError"
              /\ NodeDict_contains(node_dict, node).value = want.present
              /\ (call.on = "node_dict" /\ call.op = "getitem"
                    /\ call.node = node) =>
                      /\ call.raised = ~want.present
                      /\ want.present => call.result.value = want.value
                      /\ ~want.present => call.result.error = "KeyError"
              /\ (call.on = "node_dict" /\ call.op = "contains"
                    /\ call.node = node) =>
                      call.result.value = want.present
    /\ LET size == Cardinality({ key \in Keys :
                                   LatestFor(ops, key, Len(ops)).present })
       IN  /\ NodeDict_len(node_dict).value = size
           /\ (call.on = "node_dict" /\ call.op = "len") =>
                 call.result.value = size

\* a value set through one object of the root was replaced through another
\* object of it, and the lookup through the first gives the newer value,
\* while the lookup of a deleted key raised
C23_Witness ==
    /\ Len(ops) = 3
    /\ ops[1] = Wrote("setitem", Module1, "root", FALSE)
    /\ ops[2] = Wrote("setitem", Module2, "new_root", FALSE)
    /\ ops[3] = Wrote("delitem", Module1, "None", FALSE)
    /\ call.on = "node_dict" /\ call.op = "getitem"
    /\ call.node = Module2
    /\ call.result = Raises("KeyError")

\* the nodes of the sequence are structurally distinct
Distinct(nodes) ==
    \A i, j \in 1..Len(nodes) :
        i # j => hash_node(nodes[i]) # hash_node(nodes[j])

\* the keys removed so far
Removed ==
    { hash_node(ops[i].node) :
        i \in { j \in 1..Len(ops) : ops[j].op = "remove" /\ ~ops[j].raised } }

RECURSIVE Remaining(_, _)
\* the (id, node) pairs of the nodes given at construction that have not
\* been removed, the i-th node (0-based) with id i, in the order given
Remaining(nodes, i) ==
    IF i > Len(nodes) THEN <<>>
    ELSE (IF hash_node(nodes[i]) \in Removed THEN <<>>
          ELSE << <<i - 1, nodes[i]>> >>) \o Remaining(nodes, i + 1)

\* C24: a NodeCollection built from structurally distinct nodes, from which
\* nodes have been removed since and to which none was added, iterates over
\* the remaining nodes in the order given, the i-th node given (0-based)
\* having id i, also by lookup, and its len is the number given less one for
\* every removal.
C24_IdsAndOrderKept ==
    (mode = "NodeCollection" /\ Distinct(given)
       /\ \A i \in 1..Len(ops) : ops[i].op = "remove") =>
        /\ NodeCollection_iter(node_collection).value = Remaining(given, 1)
        /\ \A i \in 1..Len(given) :
              LET got == NodeCollection_getitem(node_collection, given[i])
              IN IF hash_node(given[i]) \in Removed
                 THEN got.raised
                 ELSE ~got.raised /\ got.value = i - 1
        /\ NodeCollection_len(node_collection).value =
              Len(given) - Cardinality({ j \in 1..Len(ops) : ~ops[j].raised })
        /\ (call.on = "node_collection" /\ call.op = "iter") =>
              call.result.value = Remaining(given, 1)
        /\ (call.on = "node_collection" /\ call.op = "len") =>
              call.result.value =
                 Len(given) - Cardinality({ j \in 1..Len(ops) : ~ops[j].raised })

\* the first of three nodes given was removed, and iteration gives the other
\* two with the ids 1 and 2
C24_Witness ==
    /\ given = <<Module1, Block, Identifier>>
    /\ ops = <<Wrote("remove", Module2, "None", FALSE)>>
    /\ call.on = "node_collection" /\ call.op = "iter"
    /\ call.result = Returns(<< <<1, Block>>, <<2, Identifier>> >>)

----------------------------------------------------------------------------
(* Claims about sexp *)

\* the stream sexp reads
SexpStream == named_node_w_edges(tree, is_named, traversal_filter)

\* the stream runs out before every node has had its named children: it is
\* empty, or a named node of the tree is missing from it
RunsShort ==
    \/ SexpStream = <<>>
    \/ \E n \in is_named : \A i \in 1..Len(SexpStream) : SexpStream[i][1] # n

\* C25: sexp never ends in StopIteration; when the stream runs short, the
\* empty stream included, it raises ValueError; and a string it returns has
\* an opening and a closing parenthesis for every named node of the tree.
C25_ShortStreamIsValueError ==
    sexp_out.pc # "none" =>
        /\ sexp_out.error # "StopIteration"
        /\ RunsShort => sexp_out.pc = "raised" /\ sexp_out.error = "ValueError"
        /\ sexp_out.pc = "returned" =>
              \A ch \in {"(", ")"} :
                 Cardinality({ i \in 1..Len(sexp_out.value) :
                                 sexp_out.value[i] = ch })
                   = Cardinality(is_named)

----------------------------------------------------------------------------
(* Claims about the context stack of BroadcastL *)

\* the context stack of the bound hook
Stack == hook.context_stack

\* the node at whose arrival an entry was pushed: the combine functions
\* used return the node, or ten times what they were handed plus the node
Pusher(entry) == entry[2] % 10

\* bind has had hook.enter run for the UP step of node n
UpEntered(n) ==
    \E i \in 1..Len(out) :
        /\ out[i] = <<n, "UP">>
        /\ ~(i = Len(out) /\ bind.pc = "enter")

\* the whole stream has been taken through the hook
BoundToEnd == gen.pc = "done" /\ bind.pc = "pull"

\* C26: in every state of a BroadcastL bound to a traversal the recorded
\* heights of the entries of context_stack strictly increase from bottom to
\* top.
C26_HeightsIncrease ==
    hook.kind = "BroadcastL" =>
        \A i, j \in 1..Len(Stack) : i < j => Stack[i][1] < Stack[j][1]

\* C27: the context stack loses entries only in the enter of an UP step, one
\* entry at a time, and the entry lost is the one pushed at the arrival of
\* the node of that UP step, its recorded height being the depth of the node.
C27_PopsOwnEntry ==
    [][(hook.kind = "BroadcastL"
          /\ hook'.context_stack # Stack
          /\ Len(hook'.context_stack) <= Len(Stack)) =>
            /\ bind.pc = "enter"
            /\ Last(out)[2] = "UP"
            /\ hook'.context_stack = Front(Stack)
            /\ Pusher(Last(Stack)) = Last(out)[1]
            /\ Last(Stack)[1] = Depth(tree, Last(out)[1])]_vars

\* C28: no entry pushed at a node n is on the stack once the UP step of n
\* has been entered; so the stack is empty when the whole traversal has been
\* taken, and the snapshot of the step (root, UP) is NO_CONTEXT.
C28_PoppedByOwnUp ==
    hook.kind = "BroadcastL" =>
        /\ \A k \in 1..Len(Stack) : ~UpEntered(Pusher(Stack[k]))
        /\ BoundToEnd => Stack = <<>>
        /\ \A i \in 1..Len(snaps) :
              snaps[i][2] = <<Root(tree), "UP">> => snaps[i][1] = NO_CONTEXT

RECURSIVE ArrivalSnaps(_, _)
\* the pairs (snapshot, step) of the arrival steps among s[i..]
ArrivalSnaps(s, i) ==
    IF i > Len(s) THEN <<>>
    ELSE (IF IsArrival(s[i][2]) THEN <<s[i]>> ELSE <<>>)
         \o ArrivalSnaps(s, i + 1)

\* the arrival steps that bind has taken through exit
ArrivalsExited ==
    LET a == ArrivalSnaps(snaps, 1) IN
    IF a # <<>> /\ bind.pc = "exit" /\ IsArrival(Last(out)) THEN Front(a) ELSE a

\* C29: the calls of combine are, in order, one for each arrival step taken
\* through exit and none for an UP step; each is handed the snapshot
\* reported with its step, which is the value on top of the stack
\* (NO_CONTEXT for an empty stack), and the node of the step, on which the
\* cursor still is; what it returns is pushed if and only if it is not
\* NO_CONTEXT, and is never what it was handed.
C29_CombinePerArrival ==
    /\ [](hook.kind = "BroadcastL" =>
            /\ Len(fn_calls) = Len(ArrivalsExited)
            /\ \A k \in 1..Len(fn_calls) :
                  /\ fn_calls[k].node = ArrivalsExited[k][2][1]
                  /\ fn_calls[k].prev_context = ArrivalsExited[k][1]
                  /\ fn_calls[k].context_value # NO_CONTEXT =>
                        fn_calls[k].context_value # fn_calls[k].prev_context)
    /\ [][hook.kind = "BroadcastL" =>
            IF bind.pc = "exit" /\ bind'.pc # "exit" /\ IsArrival(Last(out))
            THEN /\ Len(fn_calls') = Len(fn_calls) + 1
                 /\ Last(fn_calls').node = Under(cursor)
                 /\ Last(fn_calls').node = Last(out)[1]
                 /\ Last(fn_calls').prev_context =
                       (IF Stack = <<>> THEN NO_CONTEXT ELSE Last(Stack)[2])
                 /\ Last(fn_calls').prev_context = Last(snaps)[1]
                 /\ IF Last(fn_calls').context_value # NO_CONTEXT
                    THEN /\ Len(hook'.context_stack) = Len(Stack) + 1
                         /\ Front(hook'.context_stack) = Stack
                         /\ Last(hook'.context_stack)[2] =
                               Last(fn_calls').context_value
                    ELSE hook'.context_stack = Stack
            ELSE /\ fn_calls' = fn_calls
                 /\ Len(hook'.context_stack) <= Len(Stack)]_vars

\* a whole traversal of a tree with siblings has been taken, combine was
\* called once per node, and it returned a value at some nodes and
\* NO_CONTEXT at others
C29_Witness ==
    /\ hook.kind = "BroadcastL"
    /\ BoundToEnd
    /\ Len(fn_calls) = Cardinality(tree.nodes)
    /\ \E n \in tree.nodes : child_count(tree, n) >= 2
    /\ \E k \in 1..Len(fn_calls) : fn_calls[k].context_value = NO_CONTEXT
    /\ \E k \in 1..Len(fn_calls) :
          /\ fn_calls[k].context_value # NO_CONTEXT
          /\ fn_calls[k].prev_context # NO_CONTEXT

----------------------------------------------------------------------------
(* Claims about the parent stacks of iter.py *)

RECURSIVE AncestorsOf(_, _, _)
\* the proper ancestors of n at which f holds, root first
AncestorsOf(t, f, n) ==
    IF t.par[n] = 0 THEN <<>>
    ELSE AncestorsOf(t, f, t.par[n])
         \o (IF Holds(f, t.par[n]) THEN <<t.par[n]>> ELSE <<>>)

\* C30: when iternodes_with_edges is suspended at a yield its parent stack
\* is the sequence of the proper ancestors of the yielded node, root first,
\* as many as the node is deep, and the yielded parent is the node's parent
\* in the tree (None, here 0, for the root); when iternodes_with_parent is
\* suspended at a yield its parent stack is the sequence of the proper
\* ancestors at which parent_filter holds; whatever traversal_filter prunes,
\* the stack of either is empty when the generator has returned.
C30_ParentStackIsAncestors ==
    /\ (mode = "iternodes_with_edges" /\ gen.pc = "yield") =>
          /\ pstack = AncestorsOf(tree, None, gen.node)
          /\ Len(pstack) = Depth(tree, gen.node) - 1
          /\ Last(out)[1] = gen.node
          /\ Last(out)[2] = tree.par[gen.node]
    /\ (mode = "iternodes_with_parent" /\ gen.pc = "yield") =>
          /\ pstack = AncestorsOf(tree, parent_filter, gen.node)
          /\ Last(out)[1] = gen.node
    /\ (mode \in {"iternodes_with_edges", "iternodes_with_parent"}
          /\ gen.pc = "done") => pstack = <<>>

\* iternodes_with_parent is at the yield of a node two levels down, after a
\* pruned subtree, with one of the node's two ancestors kept off the stack by
\* parent_filter
C30_Witness ==
    /\ mode = "iternodes_with_parent" /\ gen.pc = "yield"
    /\ Depth(tree, gen.node) = 3
    /\ Len(pstack) = 1
    /\ \E n \in Pruned(tree, traversal_filter) : n < gen.node

----------------------------------------------------------------------------
(* Claims about a copy in use *)

RECURSIVE BehavesAs(_, _, _)
\* the cursor b shows the node the cursor a shows, and every sequence of up
\* to k navigation calls returns on b what it returns on a, raising nothing,
\* and leaves b showing what a shows
BehavesAs(a, b, k) ==
    /\ node_value(tree, b) = node_value(tree, a)
    /\ k > 0 =>
         \A op \in {"goto_first_child", "goto_next_sibling", "goto_parent"} :
            LET ra == NavigationOf(op, a)
                rb == NavigationOf(op, b)
            IN  /\ ~rb.raised
                /\ rb.ok = ra.ok
                /\ BehavesAs(ra.c, rb.c, k - 1)

\* C31: the cursor that copy() returns, taken at any position, behaves as
\* the cursor it was copied from: the same sequence of navigation calls
\* returns the same booleans and shows the same nodes on both, and no call on
\* the copy raises.
C31_CopyBehavesAsOriginal ==
    /\ [](call.on = "c2" => ~call.raised)
    /\ [][call'.op = "copy" => BehavesAs(cursor', c2'.cur, MaxLater)]_vars

----------------------------------------------------------------------------
(* Claims about the cursor after a walk *)

RECURSIVE WPAgain(_, _, _, _)
\* iternodes_with_parent run to its end from the generator state w
WPAgain(t, tf, pf, w) ==
    IF w.gen.pc = "done" THEN w.out
    ELSE WPAgain(t, tf, pf,
            CASE w.gen.pc = "start" -> WPVisit(t, tf, w)
              [] w.gen.pc = "yield" -> WPDescend(t, pf, w)
              [] w.gen.pc = "sib"   -> IterSibling(t, w)
              [] w.gen.pc = "retr"  -> WPRetrace(t, pf, w))

\* C32: when the walk under iternodes (traverse with the predicate made of
\* the filter), iternodes_with_parent or iternodes_with_edges has run to its
\* end on a cursor started at the root, the cursor is at the root again with
\* an empty path and an empty ancestor stack, and the same function run
\* once more on that very cursor yields what the first run yielded.
C32_CursorBackAtStart ==
    (gen.pc = "done" /\ mode \in {"iternodes", "iternodes_with_parent",
                                  "iternodes_with_edges"}) =>
        /\ cursor.path = <<>>
        /\ cursor.parent_stack = <<>>
        /\ node_value(tree, cursor) = Root(tree)
        /\ mode = "iternodes" =>
              RunWalk(tree, should_traverse,
                      [NewWalk(tree) EXCEPT !.cursor = cursor]).out = out
        /\ mode = "iternodes_with_parent" =>
              WPAgain(tree, traversal_filter, parent_filter,
                      [NewIter(tree) EXCEPT !.cursor = cursor]) = out
        /\ mode = "iternodes_with_edges" =>
              WERun(tree, traversal_filter,
                    [NewIter(tree) EXCEPT !.cursor = cursor]) = out

\* iternodes_with_edges has returned after yielding a node two levels below
\* the root and skipping a pruned one
C32_Witness ==
    /\ mode = "iternodes_with_edges" /\ gen.pc = "done"
    /\ \E i \in 1..Len(out) : Depth(tree, out[i][1]) = 3
    /\ Pruned(tree, traversal_filter) # {}
    /\ cursor.path = <<>>

\* C33: the counter of a Height hook bound to a traversal is never negative,
\* and it is 0, its initial value, once bind has taken the last step of the
\* traversal to its end.
C33_HeightBackAtZero ==
    (mode = "hook" /\ hook.kind = "Height") =>
        /\ hook.height >= 0
        /\ BoundToEnd => hook.height = 0

----------------------------------------------------------------------------
(* iter.py: iterchildren on a cursor the caller has moved to some node *)

\* iterchildren, lines 238-242: the generator resumed once, from its creation
\* or from its yield, up to its next yield or its return
iterchildren(t, w) ==
    LET first == IF w.gen.pc = "created"
                 THEN goto_first_child(t, w.cursor)
                 ELSE [ok |-> TRUE, raised |-> FALSE, c |-> w.cursor]
        sib   == goto_next_sibling(t, first.c)
    IN  IF ~first.ok
        THEN [w EXCEPT !.cursor = first.c, !.gen.pc = "done"]
        ELSE IF sib.raised
        THEN [w EXCEPT !.cursor = sib.c, !.gen.pc = "raised"]
        ELSE IF sib.ok
        THEN [cursor |-> node_refresh(t, sib.c),
              gen    |-> [pc |-> "y242"],
              out    |-> Append(w.out, node_value(t, sib.c))]
        ELSE [w EXCEPT !.cursor = sib.c, !.gen.pc = "done"]

\* cursor = tuple_cursor(tree), which the caller moves before listing children
InitChildren ==
    /\ tree \in Trees(MaxChildNodes)
    /\ should_traverse = None
    /\ cursor = tuple_cursor(tree)
    /\ gen = [pc |-> "none"]
    /\ out = <<>>
    /\ mode = "iterchildren"
    /\ traversal_filter = None
    /\ parent_filter = None
    /\ pstack = <<>>
    /\ lists = <<>>
    /\ hook = NoHook
    /\ bind = Idle
    /\ snaps = <<>>
    /\ navs = NoCalls
    /\ wh = NotWrapped
    /\ call = NoCall
    /\ ref = Root(tree)
    /\ c2 = NoCopy
    /\ req = "loop"
    /\ NoContainers

\* the caller's cursor.goto_first_child() before the generator exists
PlaceFirstChild ==
    /\ mode = "iterchildren" /\ gen.pc = "none"
    /\ cursor' = goto_first_child(tree, cursor).c
    /\ UNCHANGED <<call, ref, c2>>
    /\ CursorRest

\* the caller's cursor.goto_next_sibling() before the generator exists
PlaceNextSibling ==
    /\ mode = "iterchildren" /\ gen.pc = "none"
    /\ cursor' = goto_next_sibling(tree, cursor).c
    /\ UNCHANGED <<call, ref, c2>>
    /\ CursorRest

\* it = iterchildren(cursor): nothing of the body runs yet; ref is the node
\* the cursor is on
CallIterChildren ==
    /\ mode = "iterchildren" /\ gen.pc = "none"
    /\ gen' = [pc |-> "created"]
    /\ ref' = node_at_path(tree, cursor.path)
    /\ UNCHANGED <<tree, should_traverse, cursor, out, mode, traversal_filter,
                   parent_filter, pstack, lists, hook, bind, snaps, navs, wh,
                   call, c2, req, containers>>

\* next(it)
NextChild ==
    /\ mode = "iterchildren" /\ gen.pc \in {"created", "y242"}
    /\ Commit(iterchildren(tree, [cursor |-> cursor, gen |-> gen, out |-> out]))
    /\ UNCHANGED <<bind, navs, wh, req>>
    /\ Rest

NextChildren ==
    \/ PlaceFirstChild
    \/ PlaceNextSibling
    \/ CallIterChildren
    \/ NextChild

SpecChildren == InitChildren /\ [][NextChildren]_vars

\* C34: iterchildren(cursor) yields the children of the node the cursor is
\* on when it is called, from the first to the last, and nothing else: what
\* it has yielded is always the beginning of the list of those children and,
\* once it has returned, the whole list, which is empty for a leaf.
C34_YieldsEveryChild ==
    (mode = "iterchildren" /\ gen.pc \in {"y242", "done"}) =>
        /\ Len(out) <= child_count(tree, ref)
        /\ out = SubSeq(Children(tree, ref), 1, Len(out))
        /\ gen.pc = "done" => out = Children(tree, ref)

----------------------------------------------------------------------------
(* Claims about the ids of a NodeCollection *)

\* the id the collection holds under the structural key of node
IdOf(coll, node) == NodeCollection_getitem(coll, node).value

----------------------------------------------------------------------------
(* Claims about the fields of a GenericCursor *)

RECURSIVE StackFollowsPath(_, _, _)
\* from the i-th entry on, the ancestor stack holds the node at each proper
\* prefix of the path, and each path index is one of that node's children
StackFollowsPath(t, c, i) ==
    \/ i > Len(c.path)
    \/ /\ i <= Len(c.parent_stack)
       /\ c.parent_stack[i] = node_at_path(t, SubSeq(c.path, 1, i - 1))
       /\ c.path[i] \in 0..(child_count(t, c.parent_stack[i]) - 1)
       /\ StackFollowsPath(t, c, i + 1)

\* C36: in every state of a cursor made by tuple_cursor at the root and moved
\* by its navigation methods, parent_stack and path have the same length,
\* parent_stack[i] is the tree node at path[:i], every path index is below
\* the child count of that node, and when the cache is marked clean the
\* cached node is the tree node at the path.
C36_CursorFieldsAgree ==
    mode = "cursor" =>
        /\ Len(cursor.parent_stack) = Len(cursor.path)
        /\ StackFollowsPath(tree, cursor, 1)
        /\ ~cursor.node_dirty => cursor.node = node_at_path(tree, cursor.path)

\* the cursor went down, right, down and up again: it is on the second child
\* of the root with the cache clean
C36_Witness ==
    /\ mode = "cursor"
    /\ call.on = "c" /\ call.op = "goto_parent" /\ call.ok
    /\ cursor.path = <<1>>
    /\ Len(cursor.parent_stack) = 1
    /\ ~cursor.node_dirty

====
